---- MODULE Spec2Model ----
(***************************************************************************)
(* A model of the wishlist application: the sqlite tables of               *)
(* wishlist/wishlist.py (WishlistDB), the token checks and the item        *)
(* reservation protocol (verify_share_token, verify_manage_token,          *)
(* mark_item), and the request handlers of app.py that call them.          *)
(*                                                                         *)
(* Every request runs on its own connection (each helper opens             *)
(* WishlistDB()).  A write and the commit that follows it are one step of  *)
(* the model: an uncommitted write is invisible to the other connections,  *)
(* so it takes effect for them at the commit.  The reads a handler makes   *)
(* before a write are separate steps, so other requests interleave between *)
(* a handler's read and its write.                                         *)
(*                                                                         *)
(* Strings that the code inspects character by character (email addresses) *)
(* are tuples of one-character strings.  Python None and SQL NULL are the  *)
(* value None, except in the INTEGER columns gotten and email_verified,    *)
(* whose values are written "0", "1" and "NULL"; the Python values bound   *)
(* to them are written "True", "False", "0" and "None".                    *)
(*                                                                         *)
(* create_db cannot run as written (sqlite3.cursor() does not exist), so   *)
(* the tables are taken as the statements of WishlistDB use them: the      *)
(* columns they name, the cascade from wishlist to wishlist_item, and no   *)
(* foreign key on wishlist_item.getter.                                    *)
(***************************************************************************)
EXTENDS Integers, Sequences, FiniteSets, TLC

VARIABLES
    wishlist,          \* table wishlist: id -> row
    wishlist_item,     \* table wishlist_item: id -> row
    wishlist_session,  \* table wishlist_session: the set of session ids
    email_record,      \* table email_record: the rows, in insertion order
    now,               \* the wall clock, in minutes
    outbox,            \* the messages handed to the SMTP relay
    item_uuids,        \* the number of item ids uuid4() has handed out
    cookie,            \* per browser: session["id"], or None
    req                \* per browser: the request it has in flight

vars == <<wishlist, wishlist_item, wishlist_session, email_record, now, outbox, item_uuids, cookie, req>>

-----------------------------------------------------------------------------
(* Bounds of the model *)

MaxClients == 2     \* browsers, each with at most one request in flight
MaxWishlists == 1   \* wishlists ever created
MaxItems == 1       \* items ever created
MaxSessions == 2    \* session rows ever created
MaxEmails == 1      \* emails ever sent
MaxClock == 1       \* minutes the clock advances
MaxMailRun == 3     \* emails ever sent, when the email path runs on its own
MaxMailClock == 2   \* minutes the clock advances, when the email path runs on its own
MaxStoreIds == 4    \* wishlists and items ever created, when the store is called directly
MaxTxIds == 2       \* wishlists and items ever created, when commits are steps of their own
MaxTxEmails == 1    \* emails ever recorded, when commits are steps of their own
MaxShareRun == 4    \* emails ever sent, when one browser shares a wishlist
ClockStart == 1438  \* the minute of the day the model starts at (23:58)

Clients == 1..MaxClients
WishlistIds == 1..MaxWishlists
ItemIds == 1..MaxItems

\* Python None and SQL NULL, as distinct from the empty string <<>>
None == <<"None">>

-----------------------------------------------------------------------------
(* validator.py *)

\* [a-z0-9] under re.IGNORECASE | re.ASCII
Alnum ==
    {"a", "b", "c", "d", "e", "f", "g", "h", "i", "j", "k", "l", "m", "n", "o", "p", "q",
     "r", "s", "t", "u", "v", "w", "x", "y", "z", "0", "1", "2", "3", "4", "5", "6", "7",
     "8", "9", "B"}
HostChars == Alnum \cup {"-"}

\* the characters str.translate removes; "_" stands for U+200B ZERO WIDTH SPACE
\* (category Cf), which str.strip does not take for whitespace
FORBIDDEN_UNICODE_CHARACTERS == {"_"}

RECURSIVE sanitize_unicode(_)
sanitize_unicode(s) ==
    IF s = <<>> THEN <<>>
    ELSE IF Head(s) \in FORBIDDEN_UNICODE_CHARACTERS THEN sanitize_unicode(Tail(s))
    ELSE <<Head(s)>> \o sanitize_unicode(Tail(s))

\* str.lower
lower(s) == [i \in 1..Len(s) |-> IF s[i] = "B" THEN "b" ELSE s[i]]

RECURSIVE lstrip(_)
lstrip(s) == IF s # <<>> /\ Head(s) = " " THEN lstrip(Tail(s)) ELSE s

RECURSIVE rstrip(_)
rstrip(s) == IF s # <<>> /\ s[Len(s)] = " " THEN rstrip(SubSeq(s, 1, Len(s) - 1)) ELSE s

MaxWordLength == 256

\* sanitize_unicode(f"{input[:max_length]}".strip())
normalize_words(s) ==
    sanitize_unicode(rstrip(lstrip(SubSeq(s, 1, IF Len(s) < MaxWordLength THEN Len(s) ELSE MaxWordLength))))

\* str.split(sep): the pieces of s between the occurrences of sep
RECURSIVE split(_, _)
split(s, sep) ==
    IF \A i \in 1..Len(s) : s[i] # sep
    THEN <<s>>
    ELSE LET k == CHOOSE i \in 1..Len(s) : s[i] = sep /\ \A j \in 1..(i - 1) : s[j] # sep
         IN  <<SubSeq(s, 1, k - 1)>> \o split(SubSeq(s, k + 1, Len(s)), sep)

MaxLabelLength == 63
MaxHostLength == 255

\* re.match("(?!-)[a-z\d-]{1,63}(?<!-)$", label)
valid_hostname_label(x) ==
    /\ Len(x) >= 1
    /\ Len(x) <= MaxLabelLength
    /\ \A i \in 1..Len(x) : x[i] \in HostChars
    /\ x[1] # "-"
    /\ x[Len(x)] # "-"

\* mutant: a hostname check that keeps the dot on the far right
is_valid_hostname_keeps_dot(s) ==
    IF Len(s) > MaxHostLength THEN FALSE
    ELSE \A i \in 1..Len(split(s, ".")) : valid_hostname_label(split(s, ".")[i])

is_valid_hostname(s) ==
    IF Len(s) > MaxHostLength THEN FALSE
    ELSE LET t == IF s # <<>> /\ s[Len(s)] = "." THEN SubSeq(s, 1, Len(s) - 1) ELSE s
             labels == split(t, ".")
         IN  \A i \in 1..Len(labels) : valid_hostname_label(labels[i])

\* re.match("(?![^a-z0-9]).+(?<![^a-z0-9])$", local)
valid_username(x) ==
    /\ Len(x) >= 1
    /\ x[1] \in Alnum
    /\ x[Len(x)] \in Alnum

is_email(s) ==
    LET parts == split(normalize_words(s), "@")
    IN  IF Len(parts) # 2 THEN FALSE
        ELSE is_valid_hostname(parts[2]) /\ valid_username(parts[1])

\* A url is the triple <<scheme, netloc, path>> that urlparse splits its text
\* into, the scheme "" when the text has none.

\* urlparse(input, 'http')
urlparse(u) == [scheme |-> IF u[1] = "" THEN "http" ELSE u[1], netloc |-> u[2], path |-> u[3]]

is_url(u) ==
    /\ urlparse(u).scheme \in {"http", "https"}
    /\ is_valid_hostname(split(urlparse(u).netloc, ":")[1])

\* urlunparse of the parse with its netloc in lower case
normalize_url(u) == <<urlparse(u).scheme, lower(urlparse(u).netloc), urlparse(u).path>>

-----------------------------------------------------------------------------
(* uuid: the text of a UUID is its hexadecimal digits with hyphens between   *)
(* the groups; the model's UUIDs have UuidDigits digits in two groups.       *)

UuidDigits == 2
HexDigits == {"a", "b", "c", "0", "B"}

NotHyphen(ch) == ch # "-"

\* uuid.UUID(id): the digits of the text without its hyphens, as the number
\* they spell, or ValueError when they are not UuidDigits hexadecimal digits
uuid_UUID(id) ==
    LET hex == SelectSeq(id, NotHyphen)
    IN  IF Len(hex) = UuidDigits /\ \A i \in 1..Len(hex) : hex[i] \in HexDigits
        THEN [error |-> "", hex |-> lower(hex)]
        ELSE [error |-> "ValueError", hex |-> <<>>]

\* str(uuid): lower-case digits, a hyphen between the groups
uuid_str(hex) == <<hex[1], "-">> \o Tail(hex)

\* the value uuid.uuid4() returns to a constructor called without an id
uuid4 == <<"c", "-", "0">>

\* if not id: self._id = uuid.uuid4() else: self._id = uuid.UUID(id); and the
\* property id, str(self._id)
id_property(id) ==
    IF id \in {None, <<>>} THEN [error |-> "", id |-> uuid4]
    ELSE IF uuid_UUID(id).error # "" THEN [error |-> "ValueError", id |-> None]
    ELSE [error |-> "", id |-> uuid_str(uuid_UUID(id).hex)]

-----------------------------------------------------------------------------
(* Request inputs *)

GoodEmail == <<"a", "@", "b", ".", "c">>
BadEmail == <<"a", "@", "-", "b">>
EmailInputs == {GoodEmail, BadEmail}

\* secrets.token_urlsafe(32): a fresh value per wishlist and per kind
NewOwnerToken(w) == <<"owner", w>>
NewShareToken(w) == <<"share", w>>
\* request.args.get("token", "") of a request that carries no known token
NoToken == <<"">>
TokenInputs(w) == {NewOwnerToken(w), NewShareToken(w), NoToken}

\* the JSON values a mark request body carries as "gotten": true, false, and a
\* value that is false in Python without being the object False
GottenInputs == {"True", "False", "0"}

\* sqlite3's binding of a Python value to the INTEGER column gotten
SqlInteger(v) ==
    CASE v = "True" -> "1"
      [] v = "False" -> "0"
      [] v = "None" -> "NULL"
      [] OTHER -> v

\* Python truth of a value read back from the column
Truthy(v) == v \notin {"0", "NULL", "False", "None"}

NameInputs == {<<"n">>, None}

\* the name and username a POST /add body carries, and the url and description
\* of a POST /<wishlist_id>/item/add body
ListName == <<"l">>
ListUsername == <<"u">>
ItemUrl == <<>>
ItemDescription == <<"d">>

-----------------------------------------------------------------------------
(* The request record of a browser *)

NoWishlist ==
    [name |-> None, username |-> None, email |-> None, email_verified |-> "0",
     owner_token |-> None, share_token |-> None]
NoItem ==
    [wishlist_id |-> 0, name |-> None, url |-> None, description |-> None,
     gotten |-> "NULL", getter |-> None]

\* mutant: a constructor that draws both tokens anew when either is empty
Wishlist_init_tokens_together(wid, name, username, email, email_verified, owner_token, share_token) ==
    IF name = None THEN [error |-> "TypeError", obj |-> NoWishlist]
    ELSE IF username = None THEN [error |-> "TypeError", obj |-> NoWishlist]
    ELSE IF email = None THEN [error |-> "MissingRequiredParameterError", obj |-> NoWishlist]
    ELSE IF ~is_email(email) THEN [error |-> "InvalidEmailError", obj |-> NoWishlist]
    ELSE [error |-> "",
          obj |-> [name |-> normalize_words(name),
                   username |-> normalize_words(username),
                   email |-> email,
                   email_verified |-> email_verified,
                   owner_token |-> IF {owner_token, share_token} \cap {None, <<>>} # {}
                                   THEN NewOwnerToken(wid) ELSE owner_token,
                   share_token |-> IF {owner_token, share_token} \cap {None, <<>>} # {}
                                   THEN NewShareToken(wid) ELSE share_token]]

\* Wishlist.__init__, for the id wid (given, or drawn by uuid4): the exception
\* raised ("" for none) and the object
Wishlist_init(wid, name, username, email, email_verified, owner_token, share_token) ==
    IF name = None THEN [error |-> "TypeError", obj |-> NoWishlist]
    ELSE IF username = None THEN [error |-> "TypeError", obj |-> NoWishlist]
    ELSE IF email = None THEN [error |-> "MissingRequiredParameterError", obj |-> NoWishlist]
    ELSE IF ~is_email(email) THEN [error |-> "InvalidEmailError", obj |-> NoWishlist]
    ELSE [error |-> "",
          obj |-> [name |-> normalize_words(name),
                   username |-> normalize_words(username),
                   email |-> email,
                   email_verified |-> email_verified,
                   owner_token |-> IF owner_token \in {None, <<>>}
                                   THEN NewOwnerToken(wid) ELSE owner_token,
                   share_token |-> IF share_token \in {None, <<>>}
                                   THEN NewShareToken(wid) ELSE share_token]]

\* mutant: a constructor that keeps a getter only with gotten
WishlistItem_init_clears_getter(name, url, description, gotten, getter) ==
    IF name = None THEN [error |-> "MissingRequiredParameterError", obj |-> NoItem]
    ELSE IF url \notin {None, <<>>} /\ ~is_url(url)
    THEN [error |-> "InvalidParameter", obj |-> NoItem]
    ELSE IF description = None THEN [error |-> "TypeError", obj |-> NoItem]
    ELSE [error |-> "",
          obj |-> [wishlist_id |-> 0,
                   name |-> normalize_words(name),
                   url |-> IF url \in {None, <<>>} THEN <<>> ELSE normalize_url(url),
                   description |-> normalize_words(description),
                   gotten |-> gotten,
                   getter |-> IF gotten = "True" THEN getter ELSE None]]

\* WishlistItem.__init__: the exception raised ("" for none) and the object; the
\* field wishlist_id of the model's item objects is the wishlist they are for
WishlistItem_init(name, url, description, gotten, getter) ==
    IF name = None THEN [error |-> "MissingRequiredParameterError", obj |-> NoItem]
    ELSE IF url \notin {None, <<>>} /\ ~is_url(url)
    THEN [error |-> "InvalidParameter", obj |-> NoItem]
    ELSE IF description = None THEN [error |-> "TypeError", obj |-> NoItem]
    ELSE [error |-> "",
          obj |-> [wishlist_id |-> 0,
                   name |-> normalize_words(name),
                   url |-> IF url \in {None, <<>>} THEN <<>> ELSE normalize_url(url),
                   description |-> normalize_words(description),
                   gotten |-> gotten,
                   getter |-> getter]]

Idle ==
    [op |-> "idle", pc |-> "idle", wid |-> 0, token |-> NoToken, item |-> 0,
     gotten |-> "None", name |-> None, username |-> None, email |-> None,
     url |-> None, description |-> None,
     args |-> <<>>,           \* the arguments a constructor was called with
     id |-> None,             \* the id the constructed object exposes
     session_id |-> None,     \* the session id a function was called with
     result |-> "None",       \* the value a predicate returned
     items |-> {},            \* the ids of the items a listing rendered
     tx |-> <<>>,             \* the tables as the connection's open transaction has them
     view |-> <<>>,           \* the tables as a SELECT of the connection returned them
     w |-> NoWishlist,        \* my_wishlist, the Wishlist object loaded or built
     loaded |-> NoWishlist,   \* the Wishlist object get_wishlist returned for one just added
     fetched |-> NoItem,      \* the item row as get_wishlist_item returned it
     it |-> NoItem,           \* the WishlistItem object, after mark_item's assignments
     status |-> 0, error |-> ""]

Done(r, status, error) == [r EXCEPT !.pc = "done", !.status = status, !.error = error]

InFlight(ops) == Cardinality({c \in Clients : req[c].op \in ops /\ req[c].pc # "done"})

-----------------------------------------------------------------------------
(* Sessions: new_session, verify_session and the first lines of every handler *)

verify_session(sid) == sid \in wishlist_session

NewSessionId == <<"sid", Cardinality(wishlist_session) + 1>>

\* a session id that new_session never returns: the cookie of a browser that was
\* given it by a database since replaced
UnknownSession == <<"sid", 0>>

\* mutant: every request is given a new session
EnsuredSession_always_new(c) == NewSessionId

\* session["id"] after: if "id" not in session or not verify_session(session["id"])
EnsuredSession(c) ==
    IF cookie[c] # None /\ verify_session(cookie[c]) THEN cookie[c] ELSE NewSessionId

\* the model creates at most MaxSessions session rows
CanEnsureSession(c) == Cardinality(wishlist_session \cup {EnsuredSession(c)}) <= MaxSessions

\* mutant: the session id goes into the cookie and no row is stored for it
EnsureSession_no_row(c) ==
    /\ CanEnsureSession(c)
    /\ cookie' = [cookie EXCEPT ![c] = EnsuredSession(c)]
    /\ wishlist_session' = wishlist_session

EnsureSession(c) ==
    /\ CanEnsureSession(c)
    /\ cookie' = [cookie EXCEPT ![c] = EnsuredSession(c)]
    /\ wishlist_session' = wishlist_session \cup {EnsuredSession(c)}

-----------------------------------------------------------------------------
(* WishlistDB: the statements *)

\* get_wishlist finds a row
HasWishlist(wid) == wid \in DOMAIN wishlist

\* wishlist_factory: Wishlist(row[0], ..., row[6])
wishlist_factory(wid, row) ==
    Wishlist_init(wid, row.name, row.username, row.email, row.email_verified,
                  row.owner_token, row.share_token)

\* get_wishlist: the row as a Wishlist object
get_wishlist(wid) == wishlist_factory(wid, wishlist[wid]).obj

\* get_wishlist_item: SELECT ... WHERE id = ? and wishlist_id = ? finds a row
HasItem(wid, item) == item \in DOMAIN wishlist_item /\ wishlist_item[item].wishlist_id = wid

\* wishitem_factory: WishlistItem(row[0], ..., row[5])
wishitem_factory(row) ==
    [WishlistItem_init(row.name, row.url, row.description, row.gotten, row.getter).obj
        EXCEPT !.wishlist_id = row.wishlist_id]

\* get_wishlist_item: the row as a WishlistItem object
get_wishlist_item(wid, item) == wishitem_factory(wishlist_item[item])

\* update_wishlist_item: UPDATE wishlist_item set name, url, description, gotten,
\* getter WHERE id = ?
update_wishlist_item(item, obj) ==
    IF item \in DOMAIN wishlist_item
    THEN [wishlist_item EXCEPT ![item] =
            [@ EXCEPT !.name = obj.name, !.url = obj.url, !.description = obj.description,
                      !.gotten = SqlInteger(obj.gotten), !.getter = obj.getter]]
    ELSE wishlist_item

\* mutant: DELETE FROM wishlist_item WHERE id = ?
remove_wishlist_item_by_id(item, wid) ==
    [i \in DOMAIN wishlist_item \ {item} |-> wishlist_item[i]]

\* remove_wishlist_item: DELETE FROM wishlist_item WHERE id = ? and wishlist_id = ?
remove_wishlist_item(item, wid) ==
    [i \in {j \in DOMAIN wishlist_item : ~(j = item /\ wishlist_item[j].wishlist_id = wid)}
        |-> wishlist_item[i]]

\* add_items: INSERT INTO wishlist_item; the item goes through its JSON encoding
add_items(wid, item, obj) ==
    [i \in DOMAIN wishlist_item \cup {item} |->
        IF i = item
        THEN [wishlist_id |-> wid, name |-> obj.name, url |-> obj.url,
              description |-> obj.description,
              gotten |-> SqlInteger(obj.gotten), getter |-> obj.getter]
        ELSE wishlist_item[i]]

\* Wishlist.get_addr
get_addr(obj) == IF obj.email = <<"<", ">">> THEN <<>> ELSE obj.email

\* add_wishlist: INSERT INTO wishlist (id, name, username, email, owner_token,
\* share_token); email_verified takes the column's DEFAULT 0
add_wishlist(wid, obj) ==
    [i \in DOMAIN wishlist \cup {wid} |->
        IF i = wid
        THEN [name |-> obj.name, username |-> obj.username, email |-> get_addr(obj),
              email_verified |-> "0",
              owner_token |-> obj.owner_token, share_token |-> obj.share_token]
        ELSE wishlist[i]]

\* mutant: the UPDATE matches no row
mark_valid_email_no_row(wid) == wishlist

\* mutant: the UPDATE flips the flag instead of setting it
mark_valid_email_toggle(wid) ==
    IF wid \in DOMAIN wishlist
    THEN [wishlist EXCEPT ![wid].email_verified = IF @ = "1" THEN "0" ELSE "1"]
    ELSE wishlist

\* mark_valid_email: UPDATE wishlist SET email_verified = 1 WHERE id = ?
mark_valid_email(wid) ==
    IF wid \in DOMAIN wishlist
    THEN [wishlist EXCEPT ![wid].email_verified = "1"]
    ELSE wishlist

\* SELECT COUNT(1) FROM wishlist WHERE id = ? and <column> = ?: a token of None
\* is bound as NULL, which equals no column value
CountRows(wid, column, token) ==
    Cardinality({i \in DOMAIN wishlist :
                    i = wid /\ token # None /\ wishlist[i][column] = token})

\* WishlistDB.verify_share_token: count > 0
WishlistDB_verify_share_token(wid, token) == CountRows(wid, "share_token", token) > 0

\* mutant: the owner check counts on the share_token column
WishlistDB_verify_owner_token_share_column(wid, token) ==
    CountRows(wid, "share_token", token) > 0

\* WishlistDB.verify_owner_token: count > 0
WishlistDB_verify_owner_token(wid, token) == CountRows(wid, "owner_token", token) > 0

-----------------------------------------------------------------------------
(* wishlist.py: token checks.  Each gives the name of the exception it     *)
(* raises, or "" when it returns.                                          *)

\* mutant: the comparison of verify_any_token, which takes either token
verify_share_token_any(w, token) ==
    IF w.share_token # token /\ w.owner_token # token THEN "InvalidShareToken" ELSE ""

verify_share_token(w, token) ==
    IF w.share_token # token THEN "InvalidShareToken" ELSE ""

\* mutant: the comparison of verify_any_token in verify_manage_token
manage_token_check_any(w, token) ==
    IF token \notin {w.owner_token, w.share_token} THEN "InvalidManageToken" ELSE ""

\* mutant: the comparison only asks for a token of this wishlist
manage_token_check_known(w, token) ==
    IF token = NoToken THEN "InvalidManageToken" ELSE ""

\* mutant: the comparison is made with the share token
manage_token_check_share(w, token) ==
    IF ~(w.share_token = token) THEN "InvalidManageToken" ELSE ""

\* the comparison that opens verify_manage_token
manage_token_check(w, token) ==
    IF ~(w.owner_token = token) THEN "InvalidManageToken" ELSE ""

\* mutant: verify_manage_token without its mark_valid_email branch
needs_mark_valid_never(w) == FALSE

\* verify_manage_token goes on to mark_valid_email
needs_mark_valid(w) == ~Truthy(w.email_verified)

-----------------------------------------------------------------------------
(* POST /<wishlist_id>/item/<item_id>/mark *)

\* mutant: a claim is kept when the item already has a getter
mark_item_first_wins(item, gotten, session_id) ==
    IF gotten = "False" /\ item.getter # session_id
    THEN [error |-> "Exception", item |-> item]
    ELSE IF gotten = "False" /\ item.getter = session_id
    THEN [error |-> "", item |-> [item EXCEPT !.gotten = gotten, !.getter = None]]
    ELSE IF item.getter # None THEN [error |-> "", item |-> item]
    ELSE [error |-> "", item |-> [item EXCEPT !.gotten = gotten, !.getter = session_id]]

\* mutant: the ownership check passes an item nobody holds
mark_item_claimed_only(item, gotten, session_id) ==
    IF gotten = "False" /\ item.getter # session_id /\ item.getter # None
    THEN [error |-> "Exception", item |-> item]
    ELSE IF gotten = "False" /\ item.getter = session_id
    THEN [error |-> "", item |-> [item EXCEPT !.gotten = gotten, !.getter = None]]
    ELSE [error |-> "", item |-> [item EXCEPT !.gotten = gotten, !.getter = session_id]]

\* mutant: the release clears gotten and keeps the getter
mark_item_keeps_getter(item, gotten, session_id) ==
    IF gotten = "False" /\ item.getter # session_id
    THEN [error |-> "Exception", item |-> item]
    ELSE IF gotten = "False" /\ item.getter = session_id
    THEN [error |-> "", item |-> [item EXCEPT !.gotten = gotten]]
    ELSE [error |-> "", item |-> [item EXCEPT !.gotten = gotten, !.getter = session_id]]

\* mutant: a release without the ownership check
mark_item_any_release(item, gotten, session_id) ==
    IF gotten = "False"
    THEN [error |-> "", item |-> [item EXCEPT !.gotten = gotten, !.getter = None]]
    ELSE [error |-> "", item |-> [item EXCEPT !.gotten = gotten, !.getter = session_id]]

\* mutant: marking an item the session holds releases it
mark_item_toggles(item, gotten, session_id) ==
    IF gotten = "False" /\ item.getter # session_id
    THEN [error |-> "Exception", item |-> item]
    ELSE IF item.getter = session_id
    THEN [error |-> "", item |-> [item EXCEPT !.gotten = "False", !.getter = None]]
    ELSE [error |-> "", item |-> [item EXCEPT !.gotten = gotten, !.getter = session_id]]

\* mark_item between its read and its write: the exception raised ("" for none)
\* and the item object after the assignments
mark_item(item, gotten, session_id) ==
    IF gotten = "False" /\ item.getter # session_id
    THEN [error |-> "Exception", item |-> item]
    ELSE IF gotten = "False" /\ item.getter = session_id
    THEN [error |-> "", item |-> [item EXCEPT !.gotten = gotten, !.getter = None]]
    ELSE [error |-> "", item |-> [item EXCEPT !.gotten = gotten, !.getter = session_id]]

\* ensure the session, read the body, load the wishlist, verify_share_token
mark_wishlist_item(c) ==
    \E wid \in WishlistIds, item \in ItemIds :
      \E token \in TokenInputs(wid) :
        /\ req[c].pc = "idle"
        /\ EnsureSession(c)
        /\ LET r == [Idle EXCEPT !.op = "mark", !.wid = wid, !.token = token, !.item = item]
           IN  req' = [req EXCEPT ![c] =
                 IF ~HasWishlist(wid) THEN Done(r, 500, "WishlistNotFoundError")
                 ELSE LET w == get_wishlist(wid)
                          e == verify_share_token(w, token)
                      IN  IF e # "" THEN Done([r EXCEPT !.w = w], 500, e)
                          ELSE [r EXCEPT !.w = w, !.pc = "mark_item"]]
        /\ UNCHANGED <<wishlist, wishlist_item, email_record, now, outbox, item_uuids>>

\* mark_item(wishlist_id, item_id, session["id"], update_data["gotten"]) up to its
\* write: get_wishlist_item, the ownership check, the assignments
mark_item_get(c) ==
    \E gotten \in GottenInputs :
        /\ req[c].pc = "mark_item"
        /\ LET r == [req[c] EXCEPT !.gotten = gotten]
           IN  req' = [req EXCEPT ![c] =
                 IF ~HasItem(r.wid, r.item) THEN Done(r, 500, "AttributeError")
                 ELSE LET item == get_wishlist_item(r.wid, r.item)
                          m == mark_item(item, r.gotten, cookie[c])
                      IN  IF m.error # "" THEN Done([r EXCEPT !.fetched = item], 500, m.error)
                          ELSE [r EXCEPT !.fetched = item, !.it = m.item,
                                         !.pc = "update_item"]]
        /\ UNCHANGED <<wishlist, wishlist_item, wishlist_session, email_record, now, outbox, item_uuids, cookie>>

\* wishdb.update_wishlist_item(item); wishdb.save()
mark_item_update(c) ==
    /\ req[c].pc = "update_item"
    /\ wishlist_item' = update_wishlist_item(req[c].item, req[c].it)
    /\ req' = [req EXCEPT ![c] = Done(req[c], 200, "")]
    /\ UNCHANGED <<wishlist, wishlist_session, email_record, now, outbox, item_uuids, cookie>>

-----------------------------------------------------------------------------
(* The handlers that call verify_manage_token: view_wishlist,              *)
(* add_wishlist_item, delete_wishlist_item, share_wishlist                 *)

ManageOps == {"view", "add_item", "delete_item", "share"}

\* the status of a request whose wishlist id matches no row
NotFoundStatus(op) == IF op \in {"view", "share"} THEN 404 ELSE 500

\* where a handler goes once verify_manage_token has returned
AfterVerify(r) ==
    CASE r.op = "view" -> Done(r, 200, "")
      [] r.op = "add_item" ->
            \* add_item: WishlistItem(name=name, url=url, description=description)
            LET k == WishlistItem_init(r.name, ItemUrl, ItemDescription, "False", None)
            IN  IF k.error # "" THEN Done(r, 500, k.error)
                ELSE [r EXCEPT !.pc = "add_items",
                               !.it = [k.obj EXCEPT !.wishlist_id = r.wid]]
      [] r.op = "delete_item" -> [r EXCEPT !.pc = "remove_item"]
      [] OTHER -> [r EXCEPT !.pc = "check_mail_limit"]

\* the handler up to the end of verify_manage_token's token comparison
ManageLoaded(r, w) ==
    IF manage_token_check(w, r.token) # ""
    THEN IF r.op = "view"
         THEN \* view_wishlist falls back to verify_share_token
              IF verify_share_token(w, r.token) # ""
              THEN Done(r, 401, verify_share_token(w, r.token))
              ELSE Done(r, 200, "")
         ELSE Done(r, 401, manage_token_check(w, r.token))
    ELSE IF needs_mark_valid(w) THEN [r EXCEPT !.pc = "mark_valid_email"]
         ELSE AfterVerify(r)

\* the model sends at most this many emails
MailCap(emails) == Len(email_record) + InFlight({"share", "add_wishlist"}) < emails

\* the model creates at most MaxItems items and sends at most emails emails
WithinCaps(op, emails) ==
    /\ op = "add_item" => item_uuids + InFlight({"add_item"}) < MaxItems
    /\ op = "share" => MailCap(emails)

\* a request to one of the routes ops, a share request with one of the
\* addresses: ensure the session, list_factory, the token comparison
manage_handler(c, ops, emails, addresses) ==
    \E op \in ops, wid \in WishlistIds, item \in ItemIds,
       name \in NameInputs, email \in addresses :
      \E token \in TokenInputs(wid) :
        /\ req[c].pc = "idle"
        /\ WithinCaps(op, emails)
        /\ op # "delete_item" => item = 1
        /\ op # "add_item" => name = None
        /\ op # "share" => email = CHOOSE a \in addresses : TRUE
        /\ EnsureSession(c)
        /\ LET r == [Idle EXCEPT !.op = op, !.wid = wid, !.token = token,
                                 !.item = IF op = "delete_item" THEN item ELSE 0,
                                 !.name = name,
                                 !.email = IF op = "share" THEN email ELSE None]
           IN  req' = [req EXCEPT ![c] =
                 IF ~HasWishlist(wid) THEN Done(r, NotFoundStatus(op), "WishlistNotFoundError")
                 ELSE ManageLoaded([r EXCEPT !.w = get_wishlist(wid)], get_wishlist(wid))]
        /\ UNCHANGED <<wishlist, wishlist_item, email_record, now, outbox, item_uuids>>

manage_request(c) == manage_handler(c, ManageOps, MaxEmails, EmailInputs)

\* the rest of verify_manage_token: mark_valid_email, save, email_verified = True
verify_manage_token_mark(c) ==
    /\ req[c].pc = "mark_valid_email"
    /\ wishlist' = mark_valid_email(req[c].wid)
    /\ req' = [req EXCEPT ![c] = AfterVerify([req[c] EXCEPT !.w.email_verified = "True"])]
    /\ UNCHANGED <<wishlist_item, wishlist_session, email_record, now, outbox, item_uuids, cookie>>

\* add_item: uuid4(), add_items, save
add_item(c) ==
    /\ req[c].pc = "add_items"
    /\ item_uuids' = item_uuids + 1
    /\ wishlist_item' = add_items(req[c].wid, item_uuids + 1, req[c].it)
    /\ req' = [req EXCEPT ![c] = Done([req[c] EXCEPT !.item = item_uuids + 1], 200, "")]
    /\ UNCHANGED <<wishlist, wishlist_session, email_record, now, outbox, cookie>>

\* item_factory, then remove_item: remove_wishlist_item and save; the comparison
\* n_deleted > 0 that follows has None on its left and raises TypeError
remove_item(c) ==
    /\ req[c].pc = "remove_item"
    /\ wishlist_item' = remove_wishlist_item(req[c].item, req[c].wid)
    /\ req' = [req EXCEPT ![c] = Done(req[c], 500, "TypeError")]
    /\ UNCHANGED <<wishlist, wishlist_session, email_record, now, outbox, item_uuids, cookie>>

-----------------------------------------------------------------------------
(* The email path: check_mail_limit, the mailer, sent_email *)

MinutesPerDay == 1440
MailWindow == 5
MailLimit == 1

\* sent_time: CURRENT_TIMESTAMP, the text 'YYYY-MM-DD HH:MM:SS'
CurrentTimestamp(t) == <<t \div MinutesPerDay, " ", t % MinutesPerDay>>

\* since.isoformat() of a UTC-aware datetime: 'YYYY-MM-DDTHH:MM:SS.ffffff+00:00'
isoformat(t) == <<t \div MinutesPerDay, "T", t % MinutesPerDay>>

CharCode(ch) == IF ch = " " THEN 32 ELSE 84

\* sqlite's sent_time >= ? on two TEXT values: date, then separator, then time of day
TextGE(a, b) ==
    IF a[1] # b[1] THEN a[1] > b[1]
    ELSE IF CharCode(a[2]) # CharCode(b[2]) THEN CharCode(a[2]) > CharCode(b[2])
    ELSE a[3] >= b[3]

recent_email_count(email, since) ==
    Cardinality({i \in 1..Len(email_record) :
        /\ email_record[i].email = email
        /\ TextGE(email_record[i].sent_time, isoformat(since))})

\* Address(addr_spec=...).addr_spec of an address is_email accepted: the parser
\* drops the whitespace around the address and keeps everything else
addr_spec(s) == rstrip(lstrip(s))

\* mutant: check_mail_limit without its address validation
check_mail_limit_unvalidated(email_addr) ==
    IF recent_email_count(addr_spec(email_addr), now - MailWindow) > MailLimit
    THEN "RateLimitError"
    ELSE ""

\* check_mail_limit: "" or the exception raised
check_mail_limit(email_addr) ==
    IF ~is_email(email_addr) THEN "InvalidEmailError"
    ELSE IF recent_email_count(addr_spec(email_addr), now - MailWindow) > MailLimit
         THEN "RateLimitError"
         ELSE ""

\* the recipient the mailer hands to SMTP: send_share_email sends to
\* str(recipient_email).strip().lower(), send_validate_email to the address as it is
mail_to(r) == IF r.op = "share" THEN lower(rstrip(lstrip(r.email))) ELSE r.email

\* mutant: the INSERT counts again and records nothing over the limit
sent_email_within_limit(email, session_id) ==
    IF recent_email_count(email, now - MailWindow) > MailLimit
    THEN email_record
    ELSE Append(email_record, [email |-> email, sender_session_id |-> session_id,
                               sent_time |-> CurrentTimestamp(now)])

\* sent_email: INSERT INTO email_record(email, sender_session_id)
sent_email(email, session_id) ==
    Append(email_record, [email |-> email, sender_session_id |-> session_id,
                          sent_time |-> CurrentTimestamp(now)])

\* POST /add up to the INSERT: ensure the session, Wishlist(...), add_wishlist, save
add_wishlist_handler(c, emails) ==
    \E email \in EmailInputs \cup {None} :
        /\ req[c].pc = "idle"
        /\ EnsureSession(c)
        /\ LET r == [Idle EXCEPT !.op = "add_wishlist", !.email = email]
               wid == Cardinality(DOMAIN wishlist) + 1
               k == Wishlist_init(wid, ListName, ListUsername, email, "False", None, None)
               obj == k.obj
           IN  IF k.error # ""
               THEN /\ req' = [req EXCEPT ![c] = Done(r, 400, k.error)]
                    /\ UNCHANGED wishlist
               ELSE /\ wid <= MaxWishlists
                    /\ MailCap(emails)
                    /\ wishlist' = add_wishlist(wid, obj)
                    /\ req' = [req EXCEPT ![c] =
                                 [r EXCEPT !.wid = wid, !.w = obj, !.pc = "check_mail_limit"]]
        /\ UNCHANGED <<wishlist_item, email_record, now, outbox, item_uuids>>

add_wishlist_request(c) == add_wishlist_handler(c, MaxEmails)

\* wishlist.check_mail_limit(...) in add_wishlist and share_wishlist
mail_check(c) ==
    /\ req[c].pc = "check_mail_limit"
    /\ req' = [req EXCEPT ![c] =
          IF check_mail_limit(req[c].email) # ""
          THEN Done(req[c], 500, check_mail_limit(req[c].email))
          ELSE [req[c] EXCEPT !.pc = "send_email"]]
    /\ UNCHANGED <<wishlist, wishlist_item, wishlist_session, email_record, now, outbox, item_uuids, cookie>>

\* mailer.send_validate_email / send_share_email: the relay accepts the message or not
mail_send(c) ==
    \E accepted \in BOOLEAN :
        /\ req[c].pc = "send_email"
        /\ IF ~is_email(req[c].email)
           THEN /\ req' = [req EXCEPT ![c] = Done(req[c], 500, "InvalidEmailError")]
                /\ UNCHANGED outbox
           ELSE IF accepted
           THEN /\ outbox' = Append(outbox, mail_to(req[c]))
                /\ req' = [req EXCEPT ![c].pc = "sent_email"]
           ELSE /\ req' = [req EXCEPT ![c] = Done(req[c], 500, "SMTPException")]
                /\ UNCHANGED outbox
        /\ UNCHANGED <<wishlist, wishlist_item, wishlist_session, email_record, now, item_uuids, cookie>>

\* wishdb.sent_email(...): the INSERT and its commit
mail_record(c) ==
    /\ req[c].pc = "sent_email"
    /\ email_record' = sent_email(req[c].email, cookie[c])
    /\ req' = [req EXCEPT ![c] = Done(req[c], 200, "")]
    /\ UNCHANGED <<wishlist, wishlist_item, wishlist_session, now, outbox, item_uuids, cookie>>

-----------------------------------------------------------------------------
(* GET /<wishlist_id>/items and GET / *)

\* WishlistDB.get_wishlist_items: the ids of the item rows of the wishlist, which
\* get_wishlist puts in the items of the object
WishlistDB_get_wishlist_items(wid) ==
    {j \in DOMAIN wishlist_item : wishlist_item[j].wishlist_id = wid}

\* mutant: the listing answers a share token without looking at email_verified
items_response_share_unchecked(w, token) ==
    IF w.owner_token = token THEN [status |-> 200, error |-> ""]
    ELSE IF w.share_token = token THEN [status |-> 200, error |-> ""]
    ELSE [status |-> 401, error |-> ""]

\* get_wishlist_items once the wishlist is loaded: the status and the exception
\* ("" for none) its comparisons with the token lead to
items_response(w, token) ==
    IF w.owner_token = token THEN [status |-> 200, error |-> ""]
    ELSE IF w.share_token = token
    THEN IF ~Truthy(w.email_verified) THEN [status |-> 403, error |-> "UnverifiedWishlist"]
         ELSE [status |-> 200, error |-> ""]
    ELSE [status |-> 401, error |-> ""]

\* GET /<wishlist_id>/items: ensure the session, load the wishlist, compare the
\* token, render the items
get_wishlist_items(c) ==
    \E wid \in WishlistIds :
      \E token \in TokenInputs(wid) :
        /\ req[c].pc = "idle"
        /\ EnsureSession(c)
        /\ LET r == [Idle EXCEPT !.op = "items", !.wid = wid, !.token = token]
           IN  req' = [req EXCEPT ![c] =
                 IF ~HasWishlist(wid) THEN Done(r, 500, "WishlistNotFoundError")
                 ELSE LET w == get_wishlist(wid)
                          a == items_response(w, token)
                      IN  Done([r EXCEPT !.w = w,
                                         !.items = IF a.status = 200
                                                   THEN WishlistDB_get_wishlist_items(wid)
                                                   ELSE {}],
                               a.status, a.error)]
        /\ UNCHANGED <<wishlist, wishlist_item, email_record, now, outbox, item_uuids>>

create_wishlist(c) ==
    /\ req[c].pc = "idle"
    /\ EnsureSession(c)
    /\ req' = [req EXCEPT ![c] = Done([Idle EXCEPT !.op = "index"], 200, "")]
    /\ UNCHANGED <<wishlist, wishlist_item, email_record, now, outbox, item_uuids>>

-----------------------------------------------------------------------------
(* The environment *)

\* the response reaches the browser
Return(c) ==
    /\ req[c].pc = "done"
    /\ req' = [req EXCEPT ![c] = Idle]
    /\ UNCHANGED <<wishlist, wishlist_item, wishlist_session, email_record, now, outbox, item_uuids, cookie>>

\* a browser loses its session cookie, or comes back with one whose id the
\* store has no row for
ClearCookie(c) ==
    \E lost \in {None, UnknownSession} :
        /\ req[c].pc = "idle"
        /\ cookie[c] # lost
        /\ Cardinality(wishlist_session) < MaxSessions
        /\ cookie' = [cookie EXCEPT ![c] = lost]
    /\ UNCHANGED <<wishlist, wishlist_item, wishlist_session, email_record, now, outbox, item_uuids, req>>

\* a minute passes, up to the minute limit
TickTo(limit) ==
    /\ now < limit
    /\ now' = now + 1
    /\ UNCHANGED <<wishlist, wishlist_item, wishlist_session, email_record, outbox, item_uuids, cookie, req>>

Tick == TickTo(ClockStart + MaxClock)

-----------------------------------------------------------------------------

Init ==
    /\ wishlist = <<>>
    /\ wishlist_item = <<>>
    /\ wishlist_session = {}
    /\ email_record = <<>>
    /\ now = ClockStart
    /\ outbox = <<>>
    /\ item_uuids = 0
    /\ cookie = [c \in Clients |-> None]
    /\ req = [c \in Clients |-> Idle]

Next ==
    \/ \E c \in Clients : mark_wishlist_item(c)
    \/ \E c \in Clients : mark_item_get(c)
    \/ \E c \in Clients : mark_item_update(c)
    \/ \E c \in Clients : manage_request(c)
    \/ \E c \in Clients : verify_manage_token_mark(c)
    \/ \E c \in Clients : add_item(c)
    \/ \E c \in Clients : remove_item(c)
    \/ \E c \in Clients : add_wishlist_request(c)
    \/ \E c \in Clients : mail_check(c)
    \/ \E c \in Clients : mail_send(c)
    \/ \E c \in Clients : mail_record(c)
    \/ \E c \in Clients : get_wishlist_items(c)
    \/ \E c \in Clients : create_wishlist(c)
    \/ \E c \in Clients : Return(c)
    \/ \E c \in Clients : ClearCookie(c)
    \/ Tick

Spec == Init /\ [][Next]_vars

-----------------------------------------------------------------------------
(* The email path on its own: the requests that send mail (POST /add and   *)
(* POST /<wishlist_id>/share), the owner's first visit, and a clock that   *)
(* runs past midnight                                                      *)

mail_add_wishlist(c) == add_wishlist_handler(c, MaxMailRun)

mail_manage_request(c) == manage_handler(c, {"view", "share"}, MaxMailRun, EmailInputs)

MailTick == TickTo(ClockStart + MaxMailClock)

MailNext ==
    \/ \E c \in Clients : mail_add_wishlist(c)
    \/ \E c \in Clients : mail_manage_request(c)
    \/ \E c \in Clients : verify_manage_token_mark(c)
    \/ \E c \in Clients : mail_check(c)
    \/ \E c \in Clients : mail_send(c)
    \/ \E c \in Clients : mail_record(c)
    \/ \E c \in Clients : Return(c)
    \/ MailTick

MailSpec == Init /\ [][MailNext]_vars

-----------------------------------------------------------------------------
(* One browser creates a wishlist and shares it, one request after the      *)
(* other, with one mailbox whose address it writes in several ways          *)

ShareClients == {1}

\* share_data["email"]: an address, the same with its first letter in upper
\* case, and the same after a space
ShareAddress == <<"b", "@", "b", ".", "c">>
ShareEmails == {ShareAddress,
                <<"B", "@", "b", ".", "c">>,
                <<" ", "b", "@", "b", ".", "c">>}

share_add_wishlist(c) == add_wishlist_handler(c, MaxShareRun)

share_request(c) == manage_handler(c, {"share"}, MaxShareRun, ShareEmails)

ShareNext ==
    \/ \E c \in ShareClients : share_add_wishlist(c)
    \/ \E c \in ShareClients : share_request(c)
    \/ \E c \in ShareClients : verify_manage_token_mark(c)
    \/ \E c \in ShareClients : mail_check(c)
    \/ \E c \in ShareClients : mail_send(c)
    \/ \E c \in ShareClients : mail_record(c)
    \/ \E c \in ShareClients : Return(c)
    \/ MailTick

ShareSpec == Init /\ [][ShareNext]_vars

-----------------------------------------------------------------------------
(* The store called directly: a caller builds Wishlist and WishlistItem     *)
(* objects from constructor arguments of its choice, adds them, commits and *)
(* reads them back, and deletes wishlist rows                               *)

StoreCallers == {1}

StoreNames == {<<"n">>, <<"n", " ", "_">>}
StoreUsernames == {ListUsername, None}
StoreTokens == {None, <<"t">>}
StoreUrls == {None, <<"", <<"B", ".", "c">>, <<"/", "x">>>>, <<"ftp", <<"b", ".", "c">>, <<>>>>}
StoreDescriptions == {<<"d">>, None}

\* Wishlist(name=..., username=..., email=..., email_verified=..., owner_token=...,
\* share_token=...), the id drawn by uuid4
store_new_wishlist(c) ==
    \E name \in StoreNames, username \in StoreUsernames, email \in EmailInputs \cup {None},
       email_verified \in {"True", "False"}, owner_token, share_token \in StoreTokens :
        /\ req[c].pc = "idle"
        /\ item_uuids < MaxStoreIds
        /\ LET wid == item_uuids + 1
               k == Wishlist_init(wid, name, username, email, email_verified,
                                  owner_token, share_token)
               r == [Idle EXCEPT !.op = "store_wishlist", !.name = name,
                                 !.username = username, !.email = email]
           IN  IF k.error # ""
               THEN /\ req' = [req EXCEPT ![c] = Done(r, 500, k.error)]
                    /\ UNCHANGED item_uuids
               ELSE /\ req' = [req EXCEPT ![c] = [r EXCEPT !.wid = wid, !.w = k.obj,
                                                          !.pc = "add_wishlist"]]
                    /\ item_uuids' = wid
        /\ UNCHANGED <<wishlist, wishlist_item, wishlist_session, email_record, now, outbox, cookie>>

\* wishdb.add_wishlist(my_wishlist); wishdb.save()
store_add_wishlist(c) ==
    /\ req[c].pc = "add_wishlist"
    /\ wishlist' = add_wishlist(req[c].wid, req[c].w)
    /\ req' = [req EXCEPT ![c].pc = "get_wishlist"]
    /\ UNCHANGED <<wishlist_item, wishlist_session, email_record, now, outbox, item_uuids, cookie>>

\* wishdb.get_wishlist(my_wishlist.id)
store_get_wishlist(c) ==
    /\ req[c].pc = "get_wishlist"
    /\ req' = [req EXCEPT ![c] =
          IF ~HasWishlist(req[c].wid) THEN Done(req[c], 500, "WishlistNotFoundError")
          ELSE Done([req[c] EXCEPT !.loaded = get_wishlist(req[c].wid)], 200, "")]
    /\ UNCHANGED <<wishlist, wishlist_item, wishlist_session, email_record, now, outbox, item_uuids, cookie>>

\* WishlistItem(name=..., url=..., description=..., gotten=..., getter=...), the
\* id drawn by uuid4, for a wishlist of the store
store_new_item(c) ==
    \E wid \in DOMAIN wishlist, name \in NameInputs, url \in StoreUrls,
       description \in StoreDescriptions, gotten \in {"True", "False"},
       getter \in {None, <<"sid", 1>>} :
        /\ req[c].pc = "idle"
        /\ item_uuids < MaxStoreIds
        /\ LET k == WishlistItem_init(name, url, description, gotten, getter)
               r == [Idle EXCEPT !.op = "store_item", !.wid = wid, !.name = name,
                                 !.url = url, !.description = description,
                                 !.gotten = gotten, !.item = item_uuids + 1]
           IN  req' = [req EXCEPT ![c] =
                 IF k.error # "" THEN Done(r, 500, k.error)
                 ELSE [r EXCEPT !.it = [k.obj EXCEPT !.wishlist_id = wid],
                                !.pc = "store_add_items"]]
        /\ item_uuids' = item_uuids + 1
        /\ UNCHANGED <<wishlist, wishlist_item, wishlist_session, email_record, now, outbox, cookie>>

\* wishdb.add_items(wishlist_id, [item]); wishdb.save()
store_add_items(c) ==
    /\ req[c].pc = "store_add_items"
    /\ wishlist_item' = add_items(req[c].wid, req[c].item, req[c].it)
    /\ req' = [req EXCEPT ![c].pc = "get_wishlist_item"]
    /\ UNCHANGED <<wishlist, wishlist_session, email_record, now, outbox, item_uuids, cookie>>

\* wishdb.get_wishlist_item(wishlist_id, item.id)
store_get_item(c) ==
    /\ req[c].pc = "get_wishlist_item"
    /\ req' = [req EXCEPT ![c] =
          IF ~HasItem(req[c].wid, req[c].item) THEN Done(req[c], 404, "")
          ELSE Done([req[c] EXCEPT !.fetched = get_wishlist_item(req[c].wid, req[c].item)],
                    200, "")]
    /\ UNCHANGED <<wishlist, wishlist_item, wishlist_session, email_record, now, outbox, item_uuids, cookie>>

\* mutant: the DELETE with PRAGMA foreign_keys off
cascade_delete_off(wid) == wishlist_item

\* FOREIGN KEY(wishlist_id) REFERENCES wishlist(id) ON DELETE CASCADE, under
\* PRAGMA foreign_keys = ON: the item rows left when the wishlist row wid goes
cascade_delete(wid) ==
    [i \in {j \in DOMAIN wishlist_item : wishlist_item[j].wishlist_id # wid}
        |-> wishlist_item[i]]

\* the ids of the item rows of wishlist wid
ItemsOf(wid) == {j \in DOMAIN wishlist_item : wishlist_item[j].wishlist_id = wid}

\* DELETE FROM wishlist WHERE id = ?, committed; the caller goes on to
\* get_wishlist_item for one of the wishlist's items, if it had any
delete_wishlist(c) ==
    \E wid \in DOMAIN wishlist :
      \E item \in ItemsOf(wid) \cup {0} :
        /\ req[c].pc = "idle"
        /\ wishlist' = [i \in DOMAIN wishlist \ {wid} |-> wishlist[i]]
        /\ wishlist_item' = cascade_delete(wid)
        /\ req' = [req EXCEPT ![c] = [Idle EXCEPT !.op = "delete_wishlist", !.wid = wid,
                                                 !.item = item, !.pc = "get_wishlist_item"]]
        /\ UNCHANGED <<wishlist_session, email_record, now, outbox, item_uuids, cookie>>

StoreNext ==
    \/ \E c \in StoreCallers : store_new_wishlist(c)
    \/ \E c \in StoreCallers : store_add_wishlist(c)
    \/ \E c \in StoreCallers : store_get_wishlist(c)
    \/ \E c \in StoreCallers : store_new_item(c)
    \/ \E c \in StoreCallers : store_add_items(c)
    \/ \E c \in StoreCallers : store_get_item(c)
    \/ \E c \in StoreCallers : delete_wishlist(c)
    \/ \E c \in StoreCallers : Return(c)

StoreSpec == Init /\ [][StoreNext]_vars

-----------------------------------------------------------------------------
(* mark_item and remove_item called directly, with a wishlist id and an     *)
(* item id of the caller's choice, on a store that holds several wishlists  *)

ItemSessions == {<<"sid", 1>>, <<"sid", 2>>}

\* a Wishlist with an address, a name and tokens is built, the id drawn by uuid4
build_wishlist(c) ==
    /\ req[c].pc = "idle"
    /\ item_uuids < MaxStoreIds
    /\ LET wid == item_uuids + 1
           k == Wishlist_init(wid, ListName, ListUsername, GoodEmail, "False",
                              NewOwnerToken(wid), NewShareToken(wid))
       IN  req' = [req EXCEPT ![c] = [Idle EXCEPT !.op = "build_wishlist", !.wid = wid,
                                                !.w = k.obj, !.pc = "add_wishlist"]]
    /\ item_uuids' = item_uuids + 1
    /\ UNCHANGED <<wishlist, wishlist_item, wishlist_session, email_record, now, outbox, cookie>>

\* add_item(wishlist_id, name, url, description) up to its write:
\* WishlistItem(name=name, url=url, description=description)
build_item(c) ==
    \E wid \in DOMAIN wishlist :
        /\ req[c].pc = "idle"
        /\ item_uuids < MaxStoreIds
        /\ LET k == WishlistItem_init(ListName, ItemUrl, ItemDescription, "False", None)
           IN  req' = [req EXCEPT ![c] = [Idle EXCEPT !.op = "build_item", !.wid = wid,
                                                    !.it = k.obj, !.pc = "add_items"]]
        /\ UNCHANGED <<wishlist, wishlist_item, wishlist_session, email_record, now, outbox, item_uuids, cookie>>

\* mark_item(wishlist_id, item_id, session_id, gotten) up to its write
store_mark_item(c) ==
    \E wid \in 1..MaxStoreIds, item \in 1..MaxStoreIds, gotten \in GottenInputs,
       session_id \in ItemSessions :
        /\ req[c].pc = "idle"
        /\ LET r == [Idle EXCEPT !.op = "mark_item", !.wid = wid, !.item = item,
                                 !.gotten = gotten, !.session_id = session_id]
           IN  req' = [req EXCEPT ![c] =
                 IF ~HasItem(wid, item) THEN Done(r, 500, "AttributeError")
                 ELSE LET fetched == get_wishlist_item(wid, item)
                          m == mark_item(fetched, gotten, session_id)
                      IN  IF m.error # "" THEN Done([r EXCEPT !.fetched = fetched], 500, m.error)
                          ELSE [r EXCEPT !.fetched = fetched, !.it = m.item,
                                         !.pc = "update_item"]]
        /\ UNCHANGED <<wishlist, wishlist_item, wishlist_session, email_record, now, outbox, item_uuids, cookie>>

\* remove_item(id, wishlist_id) is called
store_remove_item(c) ==
    \E wid \in 1..MaxStoreIds, item \in 1..MaxStoreIds :
        /\ req[c].pc = "idle"
        /\ req' = [req EXCEPT ![c] = [Idle EXCEPT !.op = "remove_item", !.wid = wid,
                                                 !.item = item, !.pc = "remove_item"]]
        /\ UNCHANGED <<wishlist, wishlist_item, wishlist_session, email_record, now, outbox, item_uuids, cookie>>

ItemNext ==
    \/ \E c \in StoreCallers : build_wishlist(c)
    \/ \E c \in StoreCallers : store_add_wishlist(c)
    \/ \E c \in StoreCallers : store_get_wishlist(c)
    \/ \E c \in StoreCallers : build_item(c)
    \/ \E c \in StoreCallers : add_item(c)
    \/ \E c \in StoreCallers : store_mark_item(c)
    \/ \E c \in StoreCallers : mark_item_update(c)
    \/ \E c \in StoreCallers : store_remove_item(c)
    \/ \E c \in StoreCallers : remove_item(c)
    \/ \E c \in StoreCallers : Return(c)

ItemSpec == Init /\ [][ItemNext]_vars

-----------------------------------------------------------------------------
(* Transactions.  Every function of wishlist.py opens a connection of its   *)
(* own (WishlistDB()), its INSERT or UPDATE opens a transaction on it, and   *)
(* save() commits.  Here the statement and the commit are separate steps:   *)
(* the tables between the two are in the tx of the request; a second writer *)
(* waits for the write lock; a SELECT of any other connection reads the     *)
(* committed tables.                                                        *)

NoTx == <<>>

\* the committed tables
Committed ==
    [wishlist |-> wishlist, wishlist_item |-> wishlist_item,
     wishlist_session |-> wishlist_session, email_record |-> email_record]

TxOps ==
    {"tx_add_wishlist", "tx_add_item", "tx_mark_item", "tx_new_session", "tx_log_email",
     "tx_verify_manage_token"}

\* the function of r up to its INSERT or UPDATE: the constructor, the reads and
\* the checks it makes first
tx_function(r, c) ==
    CASE r.op = "tx_add_wishlist" ->
            LET k == Wishlist_init(r.wid, ListName, ListUsername, GoodEmail, "False", None, None)
            IN  [r EXCEPT !.w = k.obj, !.pc = "execute"]
      [] r.op = "tx_add_item" ->
            LET k == WishlistItem_init(<<"n">>, ItemUrl, ItemDescription, "False", None)
            IN  [r EXCEPT !.it = [k.obj EXCEPT !.wishlist_id = r.wid], !.pc = "execute"]
      [] r.op = "tx_mark_item" ->
            IF ~HasItem(r.wid, r.item) THEN Done(r, 500, "AttributeError")
            ELSE LET item == get_wishlist_item(r.wid, r.item)
                     m == mark_item(item, r.gotten, r.session_id)
                 IN  IF m.error # "" THEN Done([r EXCEPT !.fetched = item], 500, m.error)
                     ELSE [r EXCEPT !.fetched = item, !.it = m.item, !.pc = "execute"]
      [] r.op = "tx_verify_manage_token" ->
            LET w == get_wishlist(r.wid)
            IN  IF manage_token_check(w, r.token) # ""
                THEN Done([r EXCEPT !.w = w], 401, manage_token_check(w, r.token))
                ELSE IF needs_mark_valid(w) THEN [r EXCEPT !.w = w, !.pc = "execute"]
                ELSE Done([r EXCEPT !.w = w], 200, "")
      [] OTHER -> [r EXCEPT !.pc = "execute"]

\* a caller enters one of the functions, on a new connection
tx_begin(c) ==
    \E op \in TxOps :
      \E wid \in IF op = "tx_add_wishlist" THEN {item_uuids + 1} ELSE DOMAIN wishlist \cup {0} :
        \E item \in IF op = "tx_add_item" THEN {item_uuids + 1}
                    ELSE IF op = "tx_mark_item" THEN DOMAIN wishlist_item ELSE {0} :
          \E sid \in IF op \in {"tx_mark_item", "tx_log_email"} THEN wishlist_session ELSE {None} :
            \E gotten \in IF op = "tx_mark_item" THEN {"True", "False"} ELSE {"None"} :
              \E token \in IF op = "tx_verify_manage_token" /\ wid # 0
                           THEN {NewOwnerToken(wid), NewShareToken(wid)} ELSE {NoToken} :
                /\ req[c].pc = "idle"
                /\ op \in {"tx_add_item", "tx_mark_item", "tx_verify_manage_token"} => wid # 0
                /\ op \in {"tx_add_wishlist", "tx_log_email", "tx_new_session"} => wid \notin DOMAIN wishlist
                /\ op \in {"tx_add_wishlist", "tx_add_item"} => item_uuids < MaxTxIds
                /\ op = "tx_log_email" =>
                      Len(email_record) + Cardinality({d \in Clients : req[d].op = op}) < MaxTxEmails
                /\ op = "tx_new_session" =>
                      Cardinality(wishlist_session) + Cardinality({d \in Clients : req[d].op = op})
                          < MaxSessions
                /\ item_uuids' = IF op \in {"tx_add_wishlist", "tx_add_item"}
                                 THEN item_uuids + 1 ELSE item_uuids
                /\ req' = [req EXCEPT ![c] =
                      tx_function([Idle EXCEPT !.op = op, !.wid = wid, !.item = item,
                                               !.session_id = sid,
                                               !.gotten = gotten, !.token = token,
                                               !.email = GoodEmail], c)]
                /\ UNCHANGED <<wishlist, wishlist_item, wishlist_session, email_record, now, outbox, cookie>>

\* the tables after the INSERT or UPDATE of r
tx_statement(r) ==
    CASE r.op = "tx_add_wishlist" -> [Committed EXCEPT !.wishlist = add_wishlist(r.wid, r.w)]
      [] r.op = "tx_add_item" ->
            [Committed EXCEPT !.wishlist_item = add_items(r.wid, r.item, r.it)]
      [] r.op = "tx_mark_item" ->
            [Committed EXCEPT !.wishlist_item = update_wishlist_item(r.item, r.it)]
      [] r.op = "tx_new_session" ->
            [Committed EXCEPT !.wishlist_session = wishlist_session \cup {NewSessionId}]
      [] r.op = "tx_log_email" ->
            [Committed EXCEPT !.email_record = sent_email(addr_spec(r.email), r.session_id)]
      [] OTHER -> [Committed EXCEPT !.wishlist = mark_valid_email(r.wid)]

\* cur.execute(...) of an INSERT or UPDATE: it waits while another connection
\* holds the write lock, and leaves the committed tables as they are
tx_execute(c) ==
    /\ req[c].pc = "execute"
    /\ \A d \in Clients : req[d].tx = NoTx
    /\ req' = [req EXCEPT ![c] = [req[c] EXCEPT !.tx = tx_statement(req[c]), !.pc = "save"]]
    /\ UNCHANGED <<wishlist, wishlist_item, wishlist_session, email_record, now, outbox, item_uuids, cookie>>

\* mutant: the connection is dropped without a commit
save_never(tx) == Committed

\* WishlistDB.save: self._conn.commit()
save(tx) == tx

\* save(), after which the function returns
tx_save(c) ==
    /\ req[c].pc = "save"
    /\ wishlist' = save(req[c].tx).wishlist
    /\ wishlist_item' = save(req[c].tx).wishlist_item
    /\ wishlist_session' = save(req[c].tx).wishlist_session
    /\ email_record' = save(req[c].tx).email_record
    /\ req' = [req EXCEPT ![c] = Done([req[c] EXCEPT !.tx = NoTx], 200, "")]
    /\ UNCHANGED <<now, outbox, item_uuids, cookie>>

\* mutant: a SELECT that reads through the open transaction of another connection
select_uncommitted(c) ==
    IF \E d \in Clients \ {c} : req[d].tx # NoTx
    THEN req[CHOOSE d \in Clients \ {c} : req[d].tx # NoTx].tx
    ELSE Committed

\* the tables as a SELECT on the connection of c returns them
select(c) == Committed

\* a request that starts on another connection and reads the tables
tx_read(c) ==
    /\ req[c].pc = "idle"
    /\ req' = [req EXCEPT ![c] = Done([Idle EXCEPT !.op = "tx_read", !.view = select(c)], 200, "")]
    /\ UNCHANGED <<wishlist, wishlist_item, wishlist_session, email_record, now, outbox, item_uuids, cookie>>

TxNext ==
    \/ \E c \in Clients : tx_begin(c)
    \/ \E c \in Clients : tx_execute(c)
    \/ \E c \in Clients : tx_save(c)
    \/ \E c \in Clients : tx_read(c)
    \/ \E c \in Clients : Return(c)

TxSpec == Init /\ [][TxNext]_vars

-----------------------------------------------------------------------------
(* The constructors called on their own, as tests/test_wishlist.py calls   *)
(* them: every argument supplied by the caller, nothing stored.            *)

TestIds == {None, <<>>, <<"a", "-", "b">>, <<"a", "b">>, <<"B", "-", "a">>, <<"a">>}
TestTokens == {None, <<>>, <<"t">>, <<"s">>}
TestUrls ==
    StoreUrls \cup {<<"http", <<"b", ".", "c">>, <<>>>>, <<"http", <<"B", ".", "c">>, <<>>>>}
TestGetters == {None, <<"sid", 1>>}

\* test_wishlist: Wishlist(id, name, username, email, verified, token, token)
test_wishlist(c) ==
    \E id \in TestIds, name \in StoreNames, email_verified \in {"True", "False"},
       owner_token, share_token \in TestTokens :
        /\ req[c].pc = "idle"
        /\ LET k == Wishlist_init(0, name, ListUsername, GoodEmail, email_verified,
                                  owner_token, share_token)
               r == [Idle EXCEPT !.op = "test_wishlist",
                                 !.args = [id |-> id, name |-> name, username |-> ListUsername,
                                           email |-> GoodEmail, email_verified |-> email_verified,
                                           owner_token |-> owner_token,
                                           share_token |-> share_token]]
           IN  req' = [req EXCEPT ![c] =
                 IF k.error # "" THEN Done(r, 500, k.error)
                 ELSE IF id_property(id).error # "" THEN Done(r, 500, id_property(id).error)
                 ELSE Done([r EXCEPT !.w = k.obj, !.id = id_property(id).id], 200, "")]
        /\ UNCHANGED <<wishlist, wishlist_item, wishlist_session, email_record, now, outbox, item_uuids, cookie>>

\* test_wishlist_item: WishlistItem(id, name, url, description, gotten, getter)
test_wishlist_item(c) ==
    \E id \in TestIds, name \in StoreNames, url \in TestUrls, description \in StoreNames,
       gotten \in {"True", "False"}, getter \in TestGetters :
        /\ req[c].pc = "idle"
        /\ LET k == WishlistItem_init(name, url, description, gotten, getter)
               r == [Idle EXCEPT !.op = "test_wishlist_item",
                                 !.args = [id |-> id, name |-> name, url |-> url,
                                           description |-> description, gotten |-> gotten,
                                           getter |-> getter]]
           IN  req' = [req EXCEPT ![c] =
                 IF id_property(id).error # "" THEN Done(r, 500, id_property(id).error)
                 ELSE IF k.error # "" THEN Done(r, 500, k.error)
                 ELSE Done([r EXCEPT !.it = k.obj, !.id = id_property(id).id], 200, "")]
        /\ UNCHANGED <<wishlist, wishlist_item, wishlist_session, email_record, now, outbox, item_uuids, cookie>>

\* the characters of the strings is_email is tried on: a letter, a hyphen, the
\* separators, a space and U+200B
EmailAlphabet == {"a", "-", "@", ".", " ", "_"}
MaxEmailLength == 5

RECURSIVE Strings(_, _)
\* the strings over alphabet of length n or less
Strings(alphabet, n) ==
    IF n = 0 THEN {<<>>}
    ELSE Strings(alphabet, n - 1) \cup
         {Append(x, ch) : x \in {y \in Strings(alphabet, n - 1) : Len(y) = n - 1},
                          ch \in alphabet}

\* "user@sub.example.com", "not-an-email" and "user@-bad-.com"
ExampleValid ==
    <<"u", "s", "e", "r", "@", "s", "u", "b", ".", "e", "x", "a", "m", "p", "l", "e", ".",
      "c", "o", "m">>
ExampleNoAt == <<"n", "o", "t", "-", "a", "n", "-", "e", "m", "a", "i", "l">>
ExampleBadLabel == <<"u", "s", "e", "r", "@", "-", "b", "a", "d", "-", ".", "c", "o", "m">>
EmailExamples == {ExampleValid, ExampleNoAt, ExampleBadLabel}

\* is_email(input), as a test calls it
test_is_email(c) ==
    \E input \in Strings(EmailAlphabet, MaxEmailLength) \cup EmailExamples :
        /\ req[c].pc = "idle"
        /\ req' = [req EXCEPT ![c] =
              Done([Idle EXCEPT !.op = "test_is_email", !.email = input,
                                !.result = IF is_email(input) THEN "True" ELSE "False"],
                   200, "")]
        /\ UNCHANGED <<wishlist, wishlist_item, wishlist_session, email_record, now, outbox, item_uuids, cookie>>

TestNext ==
    \/ \E c \in StoreCallers : test_wishlist(c)
    \/ \E c \in StoreCallers : test_wishlist_item(c)
    \/ \E c \in StoreCallers : test_is_email(c)
    \/ \E c \in StoreCallers : Return(c)

TestSpec == Init /\ [][TestNext]_vars

-----------------------------------------------------------------------------
(* Shorthands for the properties *)

StoredVerified(wid) == Truthy(wishlist[wid].email_verified)

\* the request of c loaded a wishlist row
Loaded(c) == req[c].pc # "idle" /\ req[c].error # "WishlistNotFoundError" /\ req[c].wid # 0

\* a step of c that leaves program location pc
Leaves(c, pc) == req[c].pc = pc /\ req'[c].pc # pc

-----------------------------------------------------------------------------
(* C1 *)

\* verify_share_token as the specification states it
ClaimedShareCheck(w, token) ==
    IF w.share_token # token THEN "InvalidShareToken"
    ELSE IF ~Truthy(w.email_verified) THEN "UnverifiedWishlist"
    ELSE ""

\* C1 (as stated): in a mark request, verify_share_token returns only for the
\* share token of a wishlist loaded with email_verified true; for the share token
\* of an unverified wishlist it raises UnverifiedWishlist, and for any other token
\* InvalidShareToken.
C1_ShareTokenGatedOnVerified ==
    \A c \in Clients :
        req[c].op = "mark" /\ Loaded(c) =>
            IF ClaimedShareCheck(req[c].w, req[c].token) = ""
            THEN req[c].error \notin {"InvalidShareToken", "UnverifiedWishlist"}
            ELSE req[c].pc = "done" /\ req[c].error = ClaimedShareCheck(req[c].w, req[c].token)

-----------------------------------------------------------------------------
(* C2 *)

\* the committed reservation state of item i changes in this step
ReservationChanges(i) ==
    /\ i \in DOMAIN wishlist_item
    /\ i \in DOMAIN wishlist_item'
    /\ \/ wishlist_item'[i].gotten # wishlist_item[i].gotten
       \/ wishlist_item'[i].getter # wishlist_item[i].getter

\* C2: no step changes the gotten or getter of a stored item while the stored
\* email_verified of the item's wishlist is false.
C2_NoMarkBeforeVerification ==
    [][\A i \in ItemIds :
         ReservationChanges(i) => StoredVerified(wishlist_item[i].wishlist_id)]_vars

\* a mark request with the share token has changed an item
C2_Witness ==
    \E c \in Clients :
        /\ req[c].op = "mark" /\ req[c].pc = "done" /\ req[c].status = 200
        /\ req[c].token = req[c].w.share_token
        /\ req[c].item \in DOMAIN wishlist_item
        /\ wishlist_item[req[c].item].getter = cookie[c]

-----------------------------------------------------------------------------
(* C3 *)

\* verify_manage_token has returned normally in the request of c
ManageVerified(c) ==
    /\ req[c].op \in ManageOps
    /\ Loaded(c)
    /\ req[c].token = req[c].w.owner_token
    /\ req[c].pc # "mark_valid_email"

\* C3: once verify_manage_token has returned for the owner token, email_verified
\* is true in the store and on the wishlist object of the request; and the UPDATE
\* of a request that loaded the wishlist unverified turns a stored false into
\* true and leaves a stored true as it is, so that the stored flag changes once.
C3_ManageTokenVerifiesOnce ==
    /\ [](\A c \in Clients :
            ManageVerified(c) =>
                StoredVerified(req[c].wid) /\ Truthy(req[c].w.email_verified))
    /\ [][\A c \in Clients :
            Leaves(c, "mark_valid_email") =>
                /\ StoredVerified(req[c].wid)'
                /\ StoredVerified(req[c].wid) => wishlist' = wishlist]_vars

\* two requests loaded the wishlist while it was unverified, and both have
\* been through verify_manage_token
C3_Witness ==
    \E c, d \in Clients :
        /\ c # d
        /\ ManageVerified(c) /\ req[c].w.email_verified = "True"
        /\ ManageVerified(d) /\ req[d].w.email_verified = "True"
        /\ req[c].wid = req[d].wid

-----------------------------------------------------------------------------
(* C4 *)

\* C4: a request that presents a token other than the owner token to
\* verify_manage_token gets InvalidManageToken (view_wishlist catches it and
\* tries the share token), and the step changes email_verified neither in the
\* store nor on the loaded wishlist object.
C4_WrongManageTokenRejected ==
    [][\A c \in Clients :
         (/\ req[c].pc = "idle"
          /\ req'[c].op \in ManageOps
          /\ HasWishlist(req'[c].wid)
          /\ req'[c].token # wishlist[req'[c].wid].owner_token)
         => /\ req'[c].pc = "done"
            /\ req'[c].op # "view" => req'[c].error = "InvalidManageToken" /\ req'[c].status = 401
            /\ req'[c].op = "view" => req'[c].error = verify_share_token(wishlist[req'[c].wid], req'[c].token)
            /\ wishlist' = wishlist
            /\ req'[c].w = wishlist[req'[c].wid]]_vars

\* the share token was presented as the manage token of an unverified wishlist
C4_Witness ==
    \E c \in Clients :
        /\ req[c].op = "add_item" /\ Loaded(c)
        /\ req[c].token = req[c].w.share_token
        /\ req[c].error = "InvalidManageToken"
        /\ ~StoredVerified(req[c].wid)

-----------------------------------------------------------------------------
(* C5 *)

\* C5: a wishlist row whose email_verified is true stays, with email_verified true.
C5_VerifiedIsMonotone ==
    [][\A w \in WishlistIds :
         (HasWishlist(w) /\ StoredVerified(w)) =>
            (w \in DOMAIN wishlist' /\ Truthy(wishlist'[w].email_verified))]_vars

\* a request that loaded the wishlist unverified runs its UPDATE on a verified row
C5_Witness ==
    \E c \in Clients :
        /\ req[c].pc = "mark_valid_email"
        /\ StoredVerified(req[c].wid)

-----------------------------------------------------------------------------
(* C6 *)

\* the step is the committed UPDATE of a mark_item call by c with this gotten
MarkCommits(c, gotten) ==
    /\ req[c].op = "mark"
    /\ Leaves(c, "update_item")
    /\ req[c].gotten = gotten
    /\ req[c].item \in DOMAIN wishlist_item

\* C6: the UPDATE of mark_item(gotten=True) by session S on an existing item
\* leaves the stored item with gotten = 1 and getter = S, whatever it held.
C6_MarkTrueOverwrites ==
    [][\A c \in Clients :
         MarkCommits(c, "True") =>
            /\ req'[c].status = 200
            /\ wishlist_item'[req[c].item].gotten = "1"
            /\ wishlist_item'[req[c].item].getter = cookie[c]]_vars

\* a mark-true has replaced the claim of another session
C6_Witness ==
    \E c \in Clients :
        /\ req[c].op = "mark" /\ req[c].pc = "done" /\ req[c].status = 200
        /\ req[c].gotten = "True"
        /\ req[c].fetched.getter \notin {None, cookie[c]}
        /\ req[c].fetched.gotten = "1"
        /\ req[c].item \in DOMAIN wishlist_item
        /\ wishlist_item[req[c].item].getter = cookie[c]

-----------------------------------------------------------------------------
(* C7 *)

\* C7: mark_item(gotten=False) by session S, reading an item whose stored getter
\* is not S, raises, and the step leaves the item table as it was.
C7_ReleaseByNonOwnerFails ==
    [][\A c \in Clients :
         (/\ Leaves(c, "mark_item")
          /\ req'[c].gotten = "False"
          /\ HasItem(req[c].wid, req[c].item)
          /\ wishlist_item[req[c].item].getter # cookie[c])
         => /\ req'[c].pc = "done"
            /\ req'[c].error = "Exception"
            /\ req'[c].status = 500
            /\ wishlist_item' = wishlist_item]_vars

\* a release was refused on an item another session holds
C7_Witness ==
    \E c \in Clients :
        /\ req[c].op = "mark" /\ req[c].pc = "done" /\ req[c].error = "Exception"
        /\ req[c].gotten = "False"
        /\ req[c].fetched.getter \notin {None, cookie[c]}
        /\ wishlist_item[req[c].item].getter = req[c].fetched.getter

\* a release was refused on an item nobody holds
C7_WitnessNoGetter ==
    \E c \in Clients :
        /\ req[c].op = "mark" /\ req[c].pc = "done" /\ req[c].error = "Exception"
        /\ req[c].gotten = "False"
        /\ req[c].fetched.wishlist_id = req[c].wid
        /\ req[c].fetched.getter = None

-----------------------------------------------------------------------------
(* C8 *)

\* the reservation state add_items stores for a new item
InitialReservation(row) == row.gotten = "0" /\ row.getter = None

\* C8: mark_item(gotten=False) by session S, reading an item whose stored getter
\* is S, passes the check, and its UPDATE leaves the stored item with gotten = 0
\* and getter NULL, the reservation state the item was created with.
C8_ReleaseByOwnerClears ==
    [][\A c \in Clients :
         /\ (/\ Leaves(c, "mark_item")
             /\ req'[c].gotten = "False"
             /\ HasItem(req[c].wid, req[c].item)
             /\ wishlist_item[req[c].item].getter = cookie[c])
            => req'[c].pc = "update_item"
         /\ MarkCommits(c, "False")
            => /\ req'[c].status = 200
               /\ InitialReservation(wishlist_item'[req[c].item])]_vars

\* session S marked the item and then released it
C8_Witness ==
    \E c \in Clients :
        /\ req[c].op = "mark" /\ req[c].pc = "done" /\ req[c].status = 200
        /\ req[c].gotten = "False"
        /\ req[c].fetched.getter = cookie[c]
        /\ req[c].fetched.gotten = "1"
        /\ req[c].item \in DOMAIN wishlist_item
        /\ InitialReservation(wishlist_item[req[c].item])

-----------------------------------------------------------------------------
(* C9 *)

\* C9 (as stated): every stored item with a getter has a true gotten.
C9_GetterOnlyWhenGotten ==
    \A i \in DOMAIN wishlist_item :
        wishlist_item[i].getter # None => Truthy(wishlist_item[i].gotten)

-----------------------------------------------------------------------------
(* C10 *)

\* the stored getter of item i is cleared in this step
ClaimCleared(i) ==
    /\ i \in DOMAIN wishlist_item
    /\ i \in DOMAIN wishlist_item'
    /\ wishlist_item[i].getter # None
    /\ wishlist_item'[i].getter = None

\* C10 (as stated): a committed claim (gotten = 1, getter = S) is cleared only
\* by the UPDATE of a mark_item(gotten=False) call of S made while S is the
\* stored getter.
C10_ClearedOnlyByStoredGetter ==
    [][\A i \in ItemIds :
         (ClaimCleared(i) /\ wishlist_item[i].gotten = "1") =>
            \E c \in Clients :
                /\ MarkCommits(c, "False")
                /\ req[c].item = i
                /\ wishlist_item[i].getter = cookie[c]]_vars

\* C10 (amended): a stored getter is cleared only by the UPDATE of a
\* mark_item(gotten=False) call of a session S that read S as the item's getter;
\* what it clears is the getter stored at the UPDATE, whoever that is.
C10_ClearedOnlyByReaderOfOwnClaim ==
    [][\A i \in ItemIds :
         ClaimCleared(i) =>
            \E c \in Clients :
                /\ MarkCommits(c, "False")
                /\ req[c].item = i
                /\ req[c].fetched.getter = cookie[c]]_vars

\* the release of one session has cleared the claim another session committed
\* between the release's read and its UPDATE
C10_Witness ==
    \E c, d \in Clients :
        /\ c # d
        /\ req[c].op = "mark" /\ req[c].pc = "done" /\ req[c].status = 200
        /\ req[c].gotten = "False"
        /\ req[d].op = "mark" /\ req[d].pc = "done" /\ req[d].status = 200
        /\ req[d].gotten = "True"
        /\ req[c].item = req[d].item
        /\ req[d].fetched.getter = cookie[c]
        /\ req[d].fetched.gotten = "1"
        /\ req[c].item \in DOMAIN wishlist_item
        /\ wishlist_item[req[c].item].getter = None

-----------------------------------------------------------------------------
(* C11 *)

\* session S holds item i in the store
Holds(sid, i) ==
    /\ i \in DOMAIN wishlist_item
    /\ wishlist_item[i].gotten = "1"
    /\ wishlist_item[i].getter = sid

\* C11: mark_item(gotten=True) by session S on an item S already holds passes
\* the check, and its UPDATE succeeds and leaves the item table as it was
\* (gotten = 1, getter = S).
C11_MarkTrueIdempotent ==
    [][\A c \in Clients :
         /\ (/\ Leaves(c, "mark_item")
             /\ req'[c].gotten = "True"
             /\ HasItem(req[c].wid, req[c].item)
             /\ Holds(cookie[c], req[c].item))
            => req'[c].pc = "update_item"
         /\ (MarkCommits(c, "True") /\ Holds(cookie[c], req[c].item))
            => /\ req'[c].status = 200
               /\ wishlist_item' = wishlist_item
               /\ Holds(cookie[c], req[c].item)']_vars

\* session S marked an item it had read as its own, and holds it
C11_Witness ==
    \E c \in Clients :
        /\ req[c].op = "mark" /\ req[c].pc = "done" /\ req[c].status = 200
        /\ req[c].gotten = "True"
        /\ req[c].fetched.getter = cookie[c]
        /\ req[c].fetched.gotten = "1"
        /\ Holds(cookie[c], req[c].item)

-----------------------------------------------------------------------------
(* C12 *)

\* the requests that change the store behind a token
GatedOps == {"add_item", "delete_item", "share", "mark"}

\* the token of request r is not the one its route asks for
TokenFails(r) ==
    IF r.op = "mark" THEN r.token # wishlist[r.wid].share_token
    ELSE r.token # wishlist[r.wid].owner_token

\* the request of c takes this step
Steps(c) == req'[c] # req[c]

\* C12: an add-item, delete-item, share or mark request whose token fails ends
\* in the step that compares the token, with InvalidManageToken (401) or
\* InvalidShareToken, and that step changes no wishlist row, item row or email
\* record and sends nothing; so an item is added or removed, and a share email
\* sent or recorded, only by a request that presented the owner token.
C12_RejectedBeforeMutation ==
    [][/\ \A c \in Clients :
            (/\ Steps(c)
             /\ req'[c].op \in GatedOps
             /\ HasWishlist(req'[c].wid)
             /\ TokenFails(req'[c]))
            => /\ req[c].pc = "idle"
               /\ req'[c].pc = "done"
               /\ req'[c].error = IF req'[c].op = "mark" THEN "InvalidShareToken"
                                                        ELSE "InvalidManageToken"
               /\ req'[c].op # "mark" => req'[c].status = 401
               /\ UNCHANGED <<wishlist, wishlist_item, email_record, outbox>>
       /\ (DOMAIN wishlist_item' # DOMAIN wishlist_item)
            => \E c \in Clients :
                   /\ Steps(c)
                   /\ req[c].op \in {"add_item", "delete_item"}
                   /\ req[c].token = wishlist[req[c].wid].owner_token
       /\ \A c \in Clients :
            (Steps(c) /\ req[c].op = "share" /\ <<outbox, email_record>>' # <<outbox, email_record>>)
            => req[c].token = wishlist[req[c].wid].owner_token]_vars

\* the share token was presented to delete an item that exists, and the item
\* is still there
C12_Witness ==
    \E c \in Clients :
        /\ req[c].op = "delete_item" /\ req[c].pc = "done"
        /\ req[c].error = "InvalidManageToken"
        /\ req[c].token = req[c].w.share_token
        /\ HasItem(req[c].wid, req[c].item)

-----------------------------------------------------------------------------
(* C13 *)

\* the requests that are between their rate-limit check and their record
MailPcs == {"check_mail_limit", "send_email", "sent_email"}

\* the minute a record was sent at
SentMinute(rec) == rec.sent_time[1] * MinutesPerDay + rec.sent_time[3]

\* the emails recorded for an address in the trailing MailWindow minutes
SentInWindow(email) ==
    Cardinality({i \in 1..Len(email_record) :
        /\ email_record[i].email = email
        /\ SentMinute(email_record[i]) >= now - MailWindow})

\* no other request is in the email path
Sequential(c) == \A d \in Clients \ {c} : req[d].pc \notin MailPcs

\* C13 (as stated): in sequential use, check_mail_limit on a valid address
\* raises RateLimitError exactly when 2 or more emails to the address were
\* recorded in the trailing 5 minutes, and passes when 0 or 1 were.
C13_LimitCountsTrailingWindow ==
    [][\A c \in Clients :
         (/\ Leaves(c, "check_mail_limit")
          /\ Sequential(c)
          /\ is_email(req[c].email))
         => (req'[c].error = "RateLimitError"
                <=> SentInWindow(addr_spec(req[c].email)) > MailLimit)]_vars

-----------------------------------------------------------------------------
(* C14 *)

\* C14: the check, the send and the INSERT are three steps and only the first
\* looks at the count: the check step writes nothing, and the INSERT of a
\* request that passed its check adds the record whatever has been recorded
\* since, so requests that passed on the same count all record.
C14_CheckNotAtomicWithRecord ==
    [][\A c \in Clients :
         /\ Leaves(c, "check_mail_limit") => UNCHANGED <<email_record, outbox>>
         /\ Leaves(c, "sent_email")
            => /\ Len(email_record') = Len(email_record) + 1
               /\ email_record'[Len(email_record')].email = req[c].email
               /\ req'[c].status = 200]_vars

\* two requests for one address have both recorded their send, and the count
\* check_mail_limit would now read for the address is over 2
C14_Witness ==
    \E c, d \in Clients :
        /\ c # d
        /\ req[c].pc = "done" /\ req[c].status = 200 /\ req[c].op \in {"share", "add_wishlist"}
        /\ req[d].pc = "done" /\ req[d].status = 200 /\ req[d].op \in {"share", "add_wishlist"}
        /\ req[c].email = req[d].email
        /\ recent_email_count(addr_spec(req[c].email), now - MailWindow) > MailLimit + 1

-----------------------------------------------------------------------------
(* C15 *)

\* the message the mailer hands over for the request of c
Delivered(c) == outbox' = Append(outbox, mail_to(req[c]))

\* C15: a request reaches the mail transport only from its own
\* check_mail_limit having returned, which includes is_email of the recipient;
\* it writes its email record only after its own send returned; a request
\* whose check raised ends there, with nothing sent and nothing recorded; and
\* the outbox and the email records change in no other step.
C15_SendAfterChecksRecordAfterSend ==
    /\ [](\A c \in Clients :
            req[c].pc \in {"send_email", "sent_email"} => is_email(req[c].email))
    /\ [][/\ \A c \in Clients :
              /\ (req'[c].pc = "send_email" /\ req[c].pc # "send_email")
                 => /\ req[c].pc = "check_mail_limit"
                    /\ check_mail_limit(req[c].email) = ""
              /\ (req'[c].pc = "sent_email" /\ req[c].pc # "sent_email")
                 => req[c].pc = "send_email" /\ Delivered(c)
              /\ (Leaves(c, "check_mail_limit") /\ check_mail_limit(req[c].email) # "")
                 => /\ req'[c].pc = "done"
                    /\ req'[c].error = check_mail_limit(req[c].email)
                    /\ UNCHANGED <<outbox, email_record>>
          /\ outbox' # outbox
                => \E c \in Clients : req[c].pc = "send_email" /\ Delivered(c)
          /\ email_record' # email_record
                => \E c \in Clients :
                       /\ Leaves(c, "sent_email")
                       /\ email_record' = sent_email(req[c].email, cookie[c])]_vars

\* a share was refused by the rate limit, after an earlier one to the same
\* address was sent and recorded
C15_Witness ==
    \E c \in Clients :
        /\ req[c].op = "share" /\ req[c].pc = "done" /\ req[c].error = "RateLimitError"
        /\ \E i \in 1..Len(email_record) :
              /\ email_record[i].email = req[c].email
              /\ i <= Len(outbox)
              /\ outbox[i] = mail_to(req[c])

\* a share to an address is_email rejects has ended with nothing sent
C15_WitnessInvalid ==
    \E c \in Clients :
        /\ req[c].op = "share" /\ req[c].pc = "done" /\ req[c].error = "InvalidEmailError"
        /\ ~is_email(req[c].email)
        /\ req[c].token = req[c].w.owner_token

-----------------------------------------------------------------------------
(* C16 *)

\* Python's == on the values of gotten and email_verified: True == 1, False == 0
PyEq(a, b) == SqlInteger(a) = SqlInteger(b)

SameWishlist(a, b) ==
    /\ a.name = b.name
    /\ a.username = b.username
    /\ a.email = b.email
    /\ PyEq(a.email_verified, b.email_verified)
    /\ a.owner_token = b.owner_token
    /\ a.share_token = b.share_token

SameItem(a, b) ==
    /\ a.name = b.name
    /\ a.url = b.url
    /\ a.description = b.description
    /\ PyEq(a.gotten, b.gotten)
    /\ a.getter = b.getter

\* C16 (as stated): a Wishlist that was built, added, committed and read back by
\* get_wishlist under its id equals the one built in name, username, email,
\* email_verified and both tokens; a WishlistItem that was built, added and read
\* back by get_wishlist_item equals the one built in name, url, description,
\* gotten and getter.
C16_StoreRoundTrip ==
    \A c \in StoreCallers :
        (req[c].pc = "done" /\ req[c].status = 200) =>
            /\ req[c].op = "store_wishlist" => SameWishlist(req[c].w, req[c].loaded)
            /\ req[c].op = "store_item" => SameItem(req[c].it, req[c].fetched)

-----------------------------------------------------------------------------
(* C17 *)

\* the step deletes the wishlist row w
Deletes(w) == w \in DOMAIN wishlist /\ w \notin DOMAIN wishlist'

-----------------------------------------------------------------------------
(* C18 *)

\* C18: remove_item(id, wishlist_id) returns to delete_wishlist_item without
\* raising, whether or not a row matched: the request that reaches it ends
\* with status 200 and no exception, and a row that matched is gone.
C18_RemoveItemReturnsBool ==
    [][\A c \in Clients :
        Leaves(c, "remove_item") =>
            /\ req'[c].error = ""
            /\ req'[c].status = 200
            /\ ~HasItem(req[c].wid, req[c].item)']_vars

-----------------------------------------------------------------------------
(* C19 *)

\* the tokens a caller may present: the tokens of every wishlist, the empty
\* strings and None
AllTokens ==
    UNION {TokenInputs(w) : w \in WishlistIds} \cup StoreTokens \cup {<<>>, None}

\* the tokens of the stored wishlist w
StoredTokens(w) == <<wishlist[w].owner_token, wishlist[w].share_token>>

\* C19: for every stored wishlist and every token, WishlistDB.verify_owner_token
\* is true exactly when the token equals the owner_token of the Wishlist object
\* get_wishlist loads, and WishlistDB.verify_share_token exactly when it equals
\* the object's share_token; and no step changes the tokens of a wishlist that
\* stays stored.
C19_StoreTokenChecksMatchObject ==
    /\ [](\A w \in DOMAIN wishlist :
            /\ {t \in AllTokens : WishlistDB_verify_owner_token(w, t)}
                  = AllTokens \cap {get_wishlist(w).owner_token}
            /\ {t \in AllTokens : WishlistDB_verify_share_token(w, t)}
                  = AllTokens \cap {get_wishlist(w).share_token})
    /\ [][\A w \in DOMAIN wishlist :
            w \in DOMAIN wishlist' => StoredTokens(w)' = StoredTokens(w)]_vars

\* a stored wishlist has been verified by a manage request, and each check
\* accepts its own token of the wishlist and refuses the other one
C19_Witness ==
    \E w \in DOMAIN wishlist :
        /\ StoredVerified(w)
        /\ WishlistDB_verify_owner_token(w, NewOwnerToken(w))
        /\ ~WishlistDB_verify_owner_token(w, NewShareToken(w))
        /\ WishlistDB_verify_share_token(w, NewShareToken(w))
        /\ ~WishlistDB_verify_share_token(w, NewOwnerToken(w))

-----------------------------------------------------------------------------
(* C20 *)

\* a step in which the request of c starts: the first lines of its handler run
Starts(c) == req[c].pc = "idle" /\ req'[c].pc # "idle"

\* the request of c carries a session id that has a row in the store
CarriesKnownSession(c) == cookie[c] # None /\ cookie[c] \in wishlist_session

\* C20: a request that carries a session id the store has a row for creates no
\* session row and keeps its id; a request that carries none, or one the store
\* has no row for, creates exactly one row, with a new id, and adopts it.  Either
\* way the id the request leaves in the cookie has a row, and rows are never
\* removed, so that a repeated request is of the first kind.
C20_EnsureSessionIdempotent ==
    [][/\ wishlist_session \subseteq wishlist_session'
       /\ \A c \in Clients :
            Starts(c) =>
                /\ CarriesKnownSession(c) =>
                      /\ wishlist_session' = wishlist_session
                      /\ cookie'[c] = cookie[c]
                /\ ~CarriesKnownSession(c) =>
                      /\ cookie'[c] \notin wishlist_session \cup {cookie[c]}
                      /\ wishlist_session' = wishlist_session \cup {cookie'[c]}
                /\ CarriesKnownSession(c)'
                /\ \A d \in Clients \ {c} : cookie'[d] = cookie[d]]_vars

\* a browser that marked an item under the second session created is in a
\* later request, GET /, with the same session id, and the store still has
\* two session rows
C20_Witness ==
    \E c \in Clients : \E i \in DOMAIN wishlist_item :
        /\ req[c].op = "index" /\ req[c].pc = "done"
        /\ cookie[c] = <<"sid", 2>>
        /\ wishlist_item[i].getter = cookie[c]
        /\ Cardinality(wishlist_session) = 2

\* a browser holds a session id the store has no row for while the store has
\* a row: its next request is of the second kind
C20_WitnessUnknown ==
    \E c \in Clients :
        /\ cookie[c] = UnknownSession
        /\ wishlist_session # {}
        /\ CanEnsureSession(c)

-----------------------------------------------------------------------------
(* C21 *)

\* C21: Wishlist(...) with email absent raises MissingRequiredParameterError,
\* and with an email is_email rejects raises InvalidEmailError, whatever the
\* name and the username are, an absent username included; and a construction
\* that raised is followed by no INSERT.
C21_EmailErrorsWhateverTheRest ==
    \A c \in StoreCallers :
        req[c].op = "store_wishlist" =>
            /\ req[c].email = None => req[c].error = "MissingRequiredParameterError"
            /\ (req[c].email # None /\ ~is_email(req[c].email)) =>
                    req[c].error = "InvalidEmailError"
            /\ req[c].error # "" => req[c].wid = 0 /\ req[c].pc = "done"

-----------------------------------------------------------------------------
(* C22 *)

\* C22: WishlistItem(...) with name absent raises MissingRequiredParameterError;
\* with a name and a non-empty url that does not normalize it raises
\* InvalidParameter; in every other case, an absent description included, it
\* raises nothing, and an absent url gives the empty url.
C22_ItemConstructorErrors ==
    \A c \in StoreCallers :
        req[c].op = "store_item" =>
            IF req[c].name = None
            THEN req[c].error = "MissingRequiredParameterError"
            ELSE IF req[c].url \notin {None, <<>>} /\ ~is_url(req[c].url)
            THEN req[c].error = "InvalidParameter"
            ELSE /\ req[c].error = ""
                 /\ req[c].url = None => req[c].it.url = <<>>

-----------------------------------------------------------------------------
(* C23 *)

Empty == {None, <<>>}

\* what the constructed Wishlist w exposes for the arguments a, the id apart:
\* a supplied token as it is, also when both are the same; a new token for an
\* empty one, whatever the other is; the normalized name and username; the flag
ExposesSupplied(a, w) ==
    /\ a.owner_token \notin Empty => w.owner_token = a.owner_token
    /\ a.share_token \notin Empty => w.share_token = a.share_token
    /\ a.owner_token \in Empty => w.owner_token \notin TestTokens \cup {w.share_token}
    /\ a.share_token \in Empty => w.share_token \notin TestTokens \cup {w.owner_token}
    /\ w.name = normalize_words(a.name)
    /\ w.username = normalize_words(a.username)
    /\ w.email_verified = a.email_verified

\* the request of c constructed an object
Constructed(c, op) == req[c].op = op /\ req[c].error = ""

\* C23 as stated: a Wishlist constructed with a non-empty id exposes exactly
\* that id, and a new id is drawn only for an empty one; tokens, name, username
\* and flag as in ExposesSupplied.
C23_ExposesSuppliedIdAndTokens ==
    \A c \in StoreCallers :
        Constructed(c, "test_wishlist") =>
            /\ ExposesSupplied(req[c].args, req[c].w)
            /\ req[c].args.id \notin Empty => req[c].id = req[c].args.id
            /\ req[c].args.id \in Empty => req[c].id \notin TestIds

\* the text id is a UUID in the form str(uuid) gives
CanonicalId(id) ==
    /\ Len(id) = UuidDigits + 1
    /\ id[2] = "-"
    /\ \A i \in {1, 3} : id[i] \in HexDigits \ {"B"}

\* C23, amended: the id exposed for a non-empty id argument is the canonical
\* text of the UUID the argument spells, which is the argument itself when the
\* argument is in canonical form; a new id is drawn only for an empty one; an
\* argument that spells no UUID makes the constructor raise ValueError.
C23_ExposesCanonicalIdAndTokens ==
    \A c \in StoreCallers :
        /\ Constructed(c, "test_wishlist") =>
            /\ ExposesSupplied(req[c].args, req[c].w)
            /\ req[c].args.id \notin Empty =>
                  /\ CanonicalId(req[c].id)
                  /\ SelectSeq(req[c].id, NotHyphen) = lower(SelectSeq(req[c].args.id, NotHyphen))
                  /\ CanonicalId(req[c].args.id) => req[c].id = req[c].args.id
            /\ req[c].args.id \in Empty => req[c].id \notin TestIds
        /\ (req[c].op = "test_wishlist" /\ req[c].error # "") =>
              /\ req[c].error = "ValueError"
              /\ req[c].args.id \notin Empty
              /\ Len(SelectSeq(req[c].args.id, NotHyphen)) # UuidDigits

\* a Wishlist was constructed with an id in upper case and the same non-empty
\* text for both tokens, and exposes that text as both
C23_Witness ==
    \E c \in StoreCallers :
        /\ Constructed(c, "test_wishlist")
        /\ req[c].args.id = <<"B", "-", "a">>
        /\ req[c].id = <<"b", "-", "a">>
        /\ req[c].args.owner_token = <<"t">> /\ req[c].args.share_token = <<"t">>
        /\ req[c].w.owner_token = <<"t">> /\ req[c].w.share_token = <<"t">>
        /\ req[c].args.email_verified = "True"

\* a Wishlist was constructed with an owner token and an empty share token
C23_WitnessOneEmpty ==
    \E c \in StoreCallers :
        /\ Constructed(c, "test_wishlist")
        /\ req[c].args.owner_token = <<"t">> /\ req[c].args.share_token = <<>>
        /\ req[c].args.id = None

-----------------------------------------------------------------------------
(* C24 *)

\* the url argument is an http url
HttpUrl(u) == u \notin Empty /\ u[1] = "http"

\* C24 as stated: a WishlistItem constructed with an explicit id, name, http
\* url, description, gotten and getter exposes each of them unchanged.
C24_ItemExposesSuppliedUnchanged ==
    \A c \in StoreCallers :
        (/\ Constructed(c, "test_wishlist_item")
         /\ req[c].args.id \notin Empty
         /\ HttpUrl(req[c].args.url)) =>
            /\ req[c].id = req[c].args.id
            /\ req[c].it.name = req[c].args.name
            /\ req[c].it.url = req[c].args.url
            /\ req[c].it.description = req[c].args.description
            /\ req[c].it.gotten = req[c].args.gotten
            /\ req[c].it.getter = req[c].args.getter

\* the text has no whitespace at its ends and none of the characters
\* sanitize_unicode removes
NormalWords(x) ==
    /\ x = rstrip(lstrip(x))
    /\ \A i \in 1..Len(x) : x[i] \notin FORBIDDEN_UNICODE_CHARACTERS

\* the host of the url is in lower case
LowerHost(u) == \A i \in 1..Len(u[2]) : u[2][i] # "B"

\* C24, amended: gotten and getter are exposed unchanged, a getter together
\* with gotten false included; the id is exposed in canonical form, name and
\* description with the whitespace at their ends and the forbidden characters
\* removed, the url with its host in lower case; each of these is the supplied
\* value when the supplied value is already in that form.
C24_ItemExposesNormalForms ==
    \A c \in StoreCallers :
        (/\ Constructed(c, "test_wishlist_item")
         /\ req[c].args.id \notin Empty
         /\ HttpUrl(req[c].args.url)) =>
            /\ req[c].it.gotten = req[c].args.gotten
            /\ req[c].it.getter = req[c].args.getter
            /\ CanonicalId(req[c].id)
            /\ SelectSeq(req[c].id, NotHyphen) = lower(SelectSeq(req[c].args.id, NotHyphen))
            /\ CanonicalId(req[c].args.id) => req[c].id = req[c].args.id
            /\ NormalWords(req[c].args.name) => req[c].it.name = req[c].args.name
            /\ NormalWords(req[c].args.description) =>
                  req[c].it.description = req[c].args.description
            /\ LowerHost(req[c].args.url) => req[c].it.url = req[c].args.url
            /\ req[c].it.url[1] = "http" /\ req[c].it.url[3] = req[c].args.url[3]
            /\ LowerHost(req[c].it.url)

\* an item was constructed with a getter and gotten false, every argument in
\* normal form, and exposes both as supplied
C24_Witness ==
    \E c \in StoreCallers :
        /\ Constructed(c, "test_wishlist_item")
        /\ req[c].args.id = <<"a", "-", "b">> /\ req[c].id = <<"a", "-", "b">>
        /\ req[c].args.url = <<"http", <<"b", ".", "c">>, <<>>>>
        /\ req[c].args.name = <<"n">> /\ req[c].args.description = <<"n">>
        /\ req[c].args.gotten = "False" /\ req[c].args.getter = <<"sid", 1>>
        /\ req[c].it.gotten = "False" /\ req[c].it.getter = <<"sid", 1>>

-----------------------------------------------------------------------------
(* C25 *)

\* C25: a function that has reached its INSERT or UPDATE returns only through
\* its commit, which makes the committed tables the tables of its transaction;
\* the statement itself leaves the committed tables as they are, at most one
\* connection has an open transaction, and a request that starts on another
\* connection reads the committed tables: with every write committed before
\* and with none that is still open.
C25_CommittedOnReturnInvisibleBefore ==
    /\ [](Cardinality({c \in Clients : req[c].tx # NoTx}) <= 1)
    /\ [][\A c \in Clients :
            /\ (req[c].pc \in {"execute", "save"} /\ req'[c].pc = "done") =>
                  /\ req[c].pc = "save"
                  /\ Committed' = req[c].tx
                  /\ req'[c].error = ""
            /\ Leaves(c, "execute") =>
                  /\ Committed' = Committed
                  /\ req'[c].pc = "save"
            /\ (req[c].pc = "idle" /\ req'[c].op = "tx_read") =>
                  req'[c].view = Committed]_vars

\* mark_item(gotten true) has returned, and a request that started afterwards on
\* another connection has read the item with the getter of that call
C25_Witness ==
    \E c, d \in Clients :
        /\ c # d
        /\ req[c].op = "tx_mark_item" /\ req[c].pc = "done" /\ req[c].error = ""
        /\ req[c].gotten = "True"
        /\ req[c].fetched.getter = None
        /\ req[d].op = "tx_read"
        /\ req[c].item \in DOMAIN req[d].view.wishlist_item
        /\ req[d].view.wishlist_item[req[c].item].getter = req[c].session_id

\* a flipping verify_manage_token has executed its UPDATE and not yet committed,
\* and the committed tables, which another connection has read, have the
\* wishlist unverified
C25_WitnessPending ==
    \E c, d \in Clients :
        /\ c # d
        /\ req[c].op = "tx_verify_manage_token" /\ req[c].pc = "save"
        /\ Truthy(req[c].tx.wishlist[req[c].wid].email_verified)
        /\ req[d].op = "tx_read"
        /\ req[d].view = Committed
        /\ ~StoredVerified(req[c].wid)

-----------------------------------------------------------------------------
(* C26 *)

\* the positions of ch in x
Positions(x, ch) == {i \in 1..Len(x) : x[i] = ch}

\* every label of the domain x, the pieces between its dots, has 1 to 63
\* letters, digits or hyphens and neither starts nor ends with a hyphen
LabelsValid(x) ==
    /\ x # <<>>
    /\ \A i \in 1..Len(x) : x[i] \in Alnum \cup {"-", "."}
    /\ x[1] \notin {"-", "."} /\ x[Len(x)] \notin {"-", "."}
    /\ \A i \in 1..(Len(x) - 1) :
          ~(x[i] \in {"-", "."} /\ x[i + 1] = ".") /\ ~(x[i] = "." /\ x[i + 1] = "-")
    /\ \A i \in 1..Len(x) :
          (i + MaxLabelLength <= Len(x)) => \E j \in i..(i + MaxLabelLength) : x[j] = "."

\* one "@", a local part that starts and ends with an ASCII alphanumeric, and a
\* domain of valid labels
EmailShape(x, domain_of(_)) ==
    /\ Cardinality(Positions(x, "@")) = 1
    /\ LET at == CHOOSE i \in 1..Len(x) : x[i] = "@"
           local == SubSeq(x, 1, at - 1)
           domain == SubSeq(x, at + 1, Len(x))
       IN  /\ local # <<>>
           /\ local[1] \in Alnum /\ local[Len(local)] \in Alnum
           /\ LabelsValid(domain_of(domain))

WholeDomain(x) == x

\* the domain without one dot on its far right
WithoutLastDot(x) == IF x # <<>> /\ x[Len(x)] = "." THEN SubSeq(x, 1, Len(x) - 1) ELSE x

\* the three examples of the specification are classified as it says
ExamplesClassified ==
    \A c \in StoreCallers :
        (req[c].op = "test_is_email" /\ req[c].email \in EmailExamples) =>
            (req[c].result = "True" <=> req[c].email = ExampleValid)

\* C26 as stated: is_email accepts exactly the strings of that shape.
C26_IsEmailAcceptsExactlyShape ==
    /\ ExamplesClassified
    /\ \A c \in StoreCallers :
          req[c].op = "test_is_email" =>
              (req[c].result = "True" <=> EmailShape(req[c].email, WholeDomain))

\* C26, amended: is_email accepts exactly the strings whose normalize_words form
\* (whitespace at the ends trimmed, forbidden characters removed) has that
\* shape once one dot on the far right of the domain is dropped.
C26_IsEmailAcceptsNormalizedShape ==
    /\ ExamplesClassified
    /\ \A c \in StoreCallers :
          req[c].op = "test_is_email" =>
              (req[c].result = "True" <=>
                  EmailShape(normalize_words(req[c].email), WithoutLastDot))

\* is_email has accepted a string with whitespace in front and a dot on the
\* far right of its domain
C26_Witness ==
    \E c \in StoreCallers :
        /\ req[c].op = "test_is_email"
        /\ req[c].email = <<" ", "a", "@", "a", ".">>
        /\ req[c].result = "True"

\* is_email has classified the first example of the specification as valid
C26_WitnessExample ==
    \E c \in StoreCallers :
        /\ req[c].op = "test_is_email"
        /\ req[c].email = ExampleValid
        /\ req[c].result = "True"

-----------------------------------------------------------------------------
(* C27 *)

\* the routes that accept a token: view, items listing, add item, delete item, share
TokenRoutes == ManageOps \cup {"items"}

\* the request of c is over and its token was the owner token of its wishlist
PresentedOwnerToken(c) ==
    /\ req[c].op \in TokenRoutes
    /\ req[c].pc = "done"
    /\ Loaded(c)
    /\ req[c].token = req[c].w.owner_token

\* C27: after a request on a token-accepting route that presented the owner
\* token of its wishlist, the stored email_verified of the wishlist is true.
C27_OwnerTokenVerifiesOnEveryRoute ==
    \A c \in Clients : PresentedOwnerToken(c) => StoredVerified(req[c].wid)

-----------------------------------------------------------------------------
(* C28 *)

\* C28: the row add_wishlist inserts has email_verified false, whatever the
\* flag of the object; and a stored email_verified turns true only in the
\* UPDATE of a request that presented the owner token of that wishlist, so
\* that a verified wishlist has had such a request.
C28_VerifiedOnlyAfterOwnerToken ==
    [][\A w \in DOMAIN wishlist' :
        /\ w \notin DOMAIN wishlist => ~StoredVerified(w)'
        /\ (w \in DOMAIN wishlist /\ ~StoredVerified(w) /\ StoredVerified(w)') =>
              \E c \in Clients :
                  /\ Leaves(c, "mark_valid_email")
                  /\ req[c].wid = w
                  /\ req[c].token = wishlist[w].owner_token
                  /\ req'[c].token = req[c].token
                  /\ req'[c].error # "InvalidManageToken"]_vars

\* a wishlist is verified in the store, and the request that presented its owner
\* token, on a route that calls verify_manage_token, has ended
C28_Witness ==
    \E c \in Clients :
        /\ PresentedOwnerToken(c)
        /\ req[c].op \in ManageOps
        /\ req[c].status = 200
        /\ StoredVerified(req[c].wid)
        /\ \A d \in Clients \ {c} : req[d].op \notin TokenRoutes

-----------------------------------------------------------------------------
(* C29 *)

\* the rows for an address sent at minute since or later
SentSince(email, since) ==
    Cardinality({i \in 1..Len(email_record) :
        /\ email_record[i].email = email
        /\ SentMinute(email_record[i]) >= since})

\* C29: for every address with a row and every since in the window before now,
\* recent_email_count(email, since) is the number of rows for the address sent
\* at since or later.
C29_CountIsRowsSince ==
    \A i \in 1..Len(email_record) :
        \A since \in (now - MailWindow)..now :
            recent_email_count(email_record[i].email, since)
                = SentSince(email_record[i].email, since)

-----------------------------------------------------------------------------
(* C30 *)

\* C30: the items listing of a stored wishlist answers the owner token with the
\* items of the wishlist whether or not it is verified; the share token with
\* the items when the stored email_verified is true and with UnverifiedWishlist
\* (403) and no items when it is not; any other token with 401 and no items.
C30_ItemsListingGate ==
    [][\A c \in Clients :
        (Starts(c) /\ req'[c].op = "items" /\ HasWishlist(req'[c].wid)) =>
            LET w == req'[c].wid
                token == req'[c].token
                listed == /\ req'[c].status = 200
                          /\ req'[c].error = ""
                          /\ req'[c].items = {j \in DOMAIN wishlist_item :
                                                  wishlist_item[j].wishlist_id = w}
            IN  /\ req'[c].pc = "done"
                /\ token = wishlist[w].owner_token => listed
                /\ (token = wishlist[w].share_token /\ token # wishlist[w].owner_token) =>
                      IF StoredVerified(w) THEN listed
                      ELSE /\ req'[c].status = 403
                           /\ req'[c].error = "UnverifiedWishlist"
                           /\ req'[c].items = {}
                /\ token \notin {wishlist[w].owner_token, wishlist[w].share_token} =>
                      req'[c].status = 401 /\ req'[c].items = {}]_vars

\* a share-token holder has been given the items of a verified wishlist
C30_Witness ==
    \E c \in Clients :
        /\ req[c].op = "items" /\ req[c].pc = "done"
        /\ req[c].token = req[c].w.share_token
        /\ req[c].status = 200
        /\ req[c].items # {}

\* a share-token holder has been refused the items of an unverified wishlist
\* that has an item
C30_WitnessUnverified ==
    \E c \in Clients :
        /\ req[c].op = "items" /\ req[c].pc = "done"
        /\ req[c].token = req[c].w.share_token
        /\ req[c].status = 403
        /\ req[c].wid \in DOMAIN wishlist
        /\ ~StoredVerified(req[c].wid)

\* the owner has been given the items of a wishlist that is not verified
C30_WitnessOwnerUnverified ==
    \E c \in Clients :
        /\ req[c].op = "items" /\ req[c].pc = "done"
        /\ req[c].token = req[c].w.owner_token
        /\ req[c].status = 200
        /\ ~Truthy(req[c].w.email_verified)

-----------------------------------------------------------------------------
(* C31 *)

\* C31: in every reachable state the getter of every item row is NULL or the
\* id of a row of wishlist_session, and no step removes a row of
\* wishlist_session.
C31_GetterIsStoredSession ==
    /\ [](\A i \in DOMAIN wishlist_item :
            wishlist_item[i].getter # None => wishlist_item[i].getter \in wishlist_session)
    /\ [][wishlist_session \subseteq wishlist_session']_vars

\* an item is claimed by a session that no browser carries any more
C31_Witness ==
    \E i \in DOMAIN wishlist_item :
        /\ wishlist_item[i].getter # None
        /\ wishlist_item[i].getter \in wishlist_session
        /\ \A c \in Clients : cookie[c] # wishlist_item[i].getter

-----------------------------------------------------------------------------
(* C32 *)

\* the request of c names a stored item and a wishlist id other than the one
\* the item belongs to
NamesForeignItem(r) ==
    /\ r.item \in DOMAIN wishlist_item
    /\ wishlist_item[r.item].wishlist_id # r.wid

\* C32: mark_item called with the id of one wishlist and the id of an item of
\* another raises before it writes; and no step of mark_item or remove_item
\* changes or removes an item row of a wishlist other than the one whose id
\* the call was given.
C32_OnlyItemsOfGivenWishlist ==
    [][\A c \in StoreCallers :
        /\ (Starts(c) /\ req'[c].op = "mark_item" /\ NamesForeignItem(req'[c])) =>
              req'[c].pc = "done" /\ req'[c].error # ""
        /\ (req[c].op \in {"mark_item", "remove_item"} \/ req'[c].op \in {"mark_item", "remove_item"}) =>
              \A j \in DOMAIN wishlist_item :
                  (wishlist_item[j].wishlist_id # req[c].wid \/ req[c].pc = "idle") =>
                      /\ j \in DOMAIN wishlist_item'
                      /\ wishlist_item'[j] = wishlist_item[j]]_vars

\* remove_item has returned from a call that named a stored item and another
\* stored wishlist, and the item is still there
C32_Witness ==
    \E c \in StoreCallers :
        /\ req[c].op = "remove_item" /\ req[c].pc = "done"
        /\ NamesForeignItem(req[c])
        /\ req[c].wid \in DOMAIN wishlist

\* mark_item has raised on a call that named a stored item and another stored
\* wishlist
C32_WitnessMark ==
    \E c \in StoreCallers :
        /\ req[c].op = "mark_item" /\ req[c].pc = "done"
        /\ req[c].error = "AttributeError"
        /\ NamesForeignItem(req[c])
        /\ req[c].wid \in DOMAIN wishlist

-----------------------------------------------------------------------------
(* C33 *)

\* C33: a POST /add request that has ended without its verification email
\* passing check_mail_limit and being accepted by the relay has left no
\* wishlist row: the row of its wishlist is in the store only if the request
\* is still running or its message is in the outbox.
C33_NoRowWithoutVerificationMail ==
    \A c \in Clients :
        (/\ req[c].op = "add_wishlist" /\ req[c].pc = "done"
         /\ req[c].error \in {"RateLimitError", "SMTPException", "InvalidEmailError"})
            => req[c].wid \notin DOMAIN wishlist

-----------------------------------------------------------------------------
(* C34 *)

\* the share emails handed to the relay for a mailbox
SharesDelivered(mailbox) == Cardinality({i \in 1..Len(outbox) : outbox[i] = mailbox})

\* the share records written after midnight for the addresses delivered to a mailbox
SharesRecordedToday(mailbox) ==
    Cardinality({i \in 1..Len(email_record) :
        /\ lower(rstrip(lstrip(email_record[i].email))) = mailbox
        /\ email_record[i].sent_time[1] = CurrentTimestamp(ClockStart + MaxMailClock)[1]})

\* in the share path the relay is handed, and the email record is given, the
\* address check_mail_limit counted
SharePathUsesOneAddress ==
    \A c \in ShareClients :
        /\ (req[c].op = "share" /\ req[c].pc = "send_email" /\ req'[c].pc = "sent_email") =>
              outbox' = Append(outbox, addr_spec(req[c].email))
        /\ (req[c].op = "share" /\ Leaves(c, "sent_email")) =>
              /\ Len(email_record') = Len(email_record) + 1
              /\ email_record'[Len(email_record')].email = addr_spec(req[c].email)

\* C34: in the share path the address check_mail_limit counts, the address
\* written to the email record and the address the mail is delivered to are
\* one string, and with the requests made one after the other no mailbox is
\* handed more than 2 share emails within the window, however the submitted
\* address is written.
C34_ShareLimitPerMailbox ==
    /\ [][SharePathUsesOneAddress]_vars
    /\ [](SharesDelivered(ShareAddress) <= MailLimit + 1)

\* the part of C34 that does not depend on the text comparison of
\* recent_email_count: after midnight, where the comparison counts the records
\* of the day, no mailbox has more than 2 share emails recorded
C34_LimitPerMailboxAfterMidnight == SharesRecordedToday(ShareAddress) <= MailLimit + 1

-----------------------------------------------------------------------------
(* C35 *)

\* C35: a mark request on a stored wishlist whose owner_token differs from its
\* share_token, presenting the owner token, ends in the step it starts in with
\* InvalidShareToken, and that step leaves every item row and every wishlist
\* row (email_verified included) as it was.
C35_MarkTakesShareTokenOnly ==
    [][\A c \in Clients :
        (/\ Starts(c) /\ req'[c].op = "mark"
         /\ HasWishlist(req'[c].wid)
         /\ req'[c].token = wishlist[req'[c].wid].owner_token
         /\ wishlist[req'[c].wid].owner_token # wishlist[req'[c].wid].share_token)
            => /\ req'[c].pc = "done"
               /\ req'[c].error = "InvalidShareToken"
               /\ wishlist_item' = wishlist_item
               /\ wishlist' = wishlist]_vars

\* a mark request with the owner token has been rejected on an unverified
\* wishlist, and the wishlist is still unverified
C35_Witness ==
    \E c \in Clients :
        /\ req[c].op = "mark" /\ req[c].pc = "done"
        /\ req[c].error = "InvalidShareToken"
        /\ req[c].wid \in DOMAIN wishlist
        /\ req[c].token = wishlist[req[c].wid].owner_token
        /\ ~StoredVerified(req[c].wid)

\* a mark request with the owner token has been rejected for an item that is
\* stored and not gotten
C35_WitnessItem ==
    \E c \in Clients :
        /\ req[c].op = "mark" /\ req[c].pc = "done"
        /\ req[c].error = "InvalidShareToken"
        /\ req[c].wid \in DOMAIN wishlist
        /\ req[c].token = wishlist[req[c].wid].owner_token
        /\ HasItem(req[c].wid, req[c].item)
        /\ wishlist_item[req[c].item].getter = None

====
